---------------------------- MODULE Spec2Model ----------------------------
(***************************************************************************)
(* Model of the directory-backed Validator of digitized_av_validation      *)
(* (src/src/validate.py): one invocation of Validator.run() on one         *)
(* package, with the storage it touches (source bucket, temporary          *)
(* directory, destination directory) and the notifications it publishes.   *)
(*                                                                         *)
(* Text is modelled as a sequence of symbols.  Everything the code         *)
(* inspects character by character (file names, refids, paths, the head    *)
(* of the conformance tool's output) is spelled one character per symbol;  *)
(* fixed pieces of prose that the code only concatenates are one symbol    *)
(* each.  Concatenation is \o, so an f-string is the \o of its parts.      *)
(***************************************************************************)
EXTENDS Integers, Sequences, FiniteSets, TLC

(***************************************************************************)
(* Bounds of the model.                                                    *)
(***************************************************************************)
\* Largest number of numbered master files (_ma_01 ..) a package may hold.
MaxMasters == 2

\* Largest master-file count get_expected_structure is called with on its own.
MaxCount == 12

\* Largest number of numbered master files in a directory validate_assets is
\* called on on its own.
MaxListed == 3

\* The most calls of cleanup_binaries made in a row on one Validator.
MaxCleanups == 2

(***************************************************************************)
(* Program constants.                                                      *)
(***************************************************************************)
\* r"^[a-zA-Z0-9]{32}$"
REFID_LEN == 32
\* str(i).zfill(2)
ZFILL_WIDTH == 2

(***************************************************************************)
(* Characters and Python's string operations.                              *)
(***************************************************************************)
Digits == <<"0", "1", "2", "3", "4", "5", "6", "7", "8", "9">>

Upper ==
    <<"A", "B", "C", "D", "E", "F", "G", "H", "I", "J", "K", "L", "M",
      "N", "O", "P", "Q", "R", "S", "T", "U", "V", "W", "X", "Y", "Z">>

Lower ==
    <<"a", "b", "c", "d", "e", "f", "g", "h", "i", "j", "k", "l", "m",
      "n", "o", "p", "q", "r", "s", "t", "u", "v", "w", "x", "y", "z">>

\* The characters of the model in code-point order (what sorted() compares).
Ascii == <<"\n", " ", "!", "-", ".", "/">> \o Digits \o Upper \o <<"_">> \o Lower

Range(s) == { s[i] : i \in DOMAIN s }

AsciiRank == [c \in Range(Ascii) |-> CHOOSE i \in DOMAIN Ascii : Ascii[i] = c]

\* Code-point rank of a symbol; prose symbols rank after every character.
Ord(c) == IF c \in DOMAIN AsciiRank THEN AsciiRank[c] ELSE Len(Ascii) + 1

Alnum == Range(Digits) \cup Range(Upper) \cup Range(Lower)

\* The class [a-zA-Z0-9] of the refid pattern.
IsAlnum(c) == c \in Alnum

\* n copies of the character c.
Rep(c, n) == [i \in 1..n |-> c]

\* s[i:j] for 1-based, inclusive bounds.
Slice(s, i, j) == [k \in 1..(j - i + 1) |-> s[i + k - 1]]

\* s.startswith(p)
StartsWith(s, p) == Len(s) >= Len(p) /\ Slice(s, 1, Len(p)) = p

\* s.endswith(p)
EndsWith(s, p) == Len(s) >= Len(p) /\ Slice(s, Len(s) - Len(p) + 1, Len(s)) = p

\* Positions of the character c in s.
Positions(s, c) == { i \in DOMAIN s : s[i] = c }

Max(S) == CHOOSE x \in S : \A y \in S : y <= x

Min(S) == CHOOSE x \in S : \A y \in S : x <= y

\* s.split(c)[-1]: what follows the last c, the whole of s when c is absent.
SplitLast(s, c) ==
    IF Positions(s, c) = {} THEN s
    ELSE Slice(s, Max(Positions(s, c)) + 1, Len(s))

\* s.split(c)[0]: what precedes the first c, the whole of s when c is absent.
SplitFirst(s, c) ==
    IF Positions(s, c) = {} THEN s
    ELSE Slice(s, 1, Min(Positions(s, c)) - 1)

\* pathlib's PurePath.stem of a single path component: the name without its
\* last suffix; a leading or a trailing dot starts no suffix.
Stem(name) ==
    LET dots == Positions(name, ".")
    IN  IF dots # {} /\ Max(dots) > 1 /\ Max(dots) < Len(name)
        THEN Slice(name, 1, Max(dots) - 1)
        ELSE name

\* str(n) for a natural number n.
RECURSIVE Str(_)
Str(n) == IF n < 10 THEN <<Digits[n + 1]>> ELSE Str(n \div 10) \o <<Digits[(n % 10) + 1]>>

\* s.zfill(w)
Zfill(s, w) == IF Len(s) >= w THEN s ELSE Rep("0", w - Len(s)) \o s

\* a < b for strings, by code point.
RECURSIVE StrLess(_, _)
StrLess(a, b) ==
    IF b = <<>> THEN FALSE
    ELSE IF a = <<>> THEN TRUE
    ELSE IF Ord(Head(a)) # Ord(Head(b)) THEN Ord(Head(a)) < Ord(Head(b))
    ELSE StrLess(Tail(a), Tail(b))

\* Insert x into the sorted list l, after its equals.
RECURSIVE Insert(_, _)
Insert(x, l) ==
    IF l = <<>> THEN <<x>>
    ELSE IF StrLess(x, Head(l)) THEN <<x>> \o l
    ELSE <<Head(l)>> \o Insert(x, Tail(l))

\* sorted(l) for a list of strings.
RECURSIVE Sorted(_)
Sorted(l) == IF l = <<>> THEN <<>> ELSE Insert(l[Len(l)], Sorted(SubSeq(l, 1, Len(l) - 1)))

\* sep.join(l)
RECURSIVE Join(_, _)
Join(sep, l) ==
    IF l = <<>> THEN <<>>
    ELSE IF Len(l) = 1 THEN l[1]
    ELSE l[1] \o sep \o Join(sep, Tail(l))

\* The orderings of a finite set: what a directory listing may return.
RECURSIVE Perms(_)
Perms(S) ==
    IF S = {} THEN { <<>> }
    ELSE UNION { { <<x>> \o p : p \in Perms(S \ {x}) } : x \in S }


(***************************************************************************)
(* Exceptions.  str(e) is e.msg; ctx_* is the exception that was being     *)
(* handled when e was raised (Python's implicit chaining), "" when none;   *)
(* tb says whether e carries a traceback, i.e. whether it was raised.      *)
(***************************************************************************)
NoExc == [type |-> "", msg |-> <<>>, ctx_type |-> "", ctx_msg |-> <<>>, tb |-> FALSE]

Exc(type, msg) == [type |-> type, msg |-> msg, ctx_type |-> "", ctx_msg |-> <<>>, tb |-> TRUE]

ExcFrom(type, msg, ctx) == [type |-> type, msg |-> msg, ctx_type |-> ctx.type, ctx_msg |-> ctx.msg, tb |-> TRUE]

\* What the collaborators raise when they fail.
AssumeRoleFailed == Exc("ClientError", <<"An error occurred (AccessDenied) when calling the AssumeRole operation">>)

DownloadFailed == Exc("ClientError", <<"An error occurred (404) when calling the HeadObject operation: Not Found">>)

TarReadFailed == Exc("ReadError", <<"file could not be opened successfully">>)

TarTruncated == Exc("EOFError", <<"Compressed file ended before the end-of-stream marker was reached">>)

NotABag == Exc("BagError", <<"Expected bagit.txt does not exist">>)

BagInvalid == Exc("BagValidationError", <<"Bag validation failed">>)

CopyFailed == Exc("Error", <<"[('src', 'dst', 'No space left on device')]">>)

RmtreeFailed == Exc("PermissionError", <<"[Errno 13] Permission denied">>)

DeleteFailed == Exc("ClientError", <<"An error occurred (AccessDenied) when calling the DeleteObject operation">>)

PublishFailed == Exc("ClientError", <<"An error occurred (InternalError) when calling the Publish operation">>)

(***************************************************************************)
(* File names and paths.                                                   *)
(***************************************************************************)
A_MP3 == <<"a", ".", "m", "p", "3">>

MA_WAV == <<"m", "a", ".", "w", "a", "v">>

A_MP4 == <<"a", ".", "m", "p", "4">>

MA_MKV == <<"m", "a", ".", "m", "k", "v">>

ME_MOV == <<"m", "e", ".", "m", "o", "v">>

DOT_WAV == <<".", "w", "a", "v">>

DOT_MKV == <<".", "m", "k", "v">>

TAR_GZ == <<".", "t", "a", "r", ".", "g", "z">>

\* A file no structure expects.
NOTES_TXT == <<"n", "o", "t", "e", "s", ".", "t", "x", "t">>

\* f"{refid}_ma_{str(i).zfill(2)}.wav"
NumberedMaster(refid, i) == refid \o <<"_", "m", "a", "_">> \o Zfill(Str(i), ZFILL_WIDTH) \o DOT_WAV

\* str(Path(a, b)): an empty b adds nothing.
PathJoin(a, b) == IF b = <<>> THEN a ELSE a \o <<"/">> \o b

(***************************************************************************)
(* The inputs of the model.                                                *)
(***************************************************************************)
Formats == {"audio", "video", "text"}

TmpDirs == { <<"/", "v">>, <<"/", "t", "_", "d">> }

\* Refids as they come out of source file names: a well-formed one, one too
\* short, one too long, one with a character outside the class, one
\* 32-character identifier followed by a line break, and the empty one.
RefidSamples ==
    { Rep("a", REFID_LEN - 3) \o <<"Z", "0", "9">>,
      Rep("a", REFID_LEN - 1),
      Rep("a", REFID_LEN + 1),
      Rep("a", REFID_LEN - 1) \o <<"-">>,
      Rep("a", REFID_LEN) \o <<"\n">>,
      <<>> }

SourceFilenames == { r \o TAR_GZ : r \in RefidSamples }

\* The names a package's data/ directory may hold.
Candidates(fmt, r) ==
    IF fmt = "video"
    THEN { r \o <<"_">> \o MA_MKV, r \o <<"_">> \o ME_MOV, r \o <<"_">> \o A_MP4, NOTES_TXT }
    ELSE { r \o <<"_">> \o A_MP3, r \o <<"_">> \o MA_WAV, NOTES_TXT }
         \cup { NumberedMaster(r, i) : i \in 1..MaxMasters }

NoPackage == [kind |-> "none", payload |-> {}, bagValid |-> FALSE]

\* What the source object may turn out to be: a tar of a valid bag rooted at
\* {refid} with any payload, a tar of a bag whose manifests do not match its
\* payload, a file tarfile cannot open, a tar that breaks off after part of
\* the tree was written, or a tar whose root directory has another name.
Packages(fmt, r) ==
    { [kind |-> "bag", payload |-> p, bagValid |-> TRUE] : p \in SUBSET Candidates(fmt, r) }
    \cup { [kind |-> "bag", payload |-> Candidates(fmt, r) \ {NOTES_TXT}, bagValid |-> FALSE],
           [kind |-> "bag", payload |-> {}, bagValid |-> FALSE],
           [kind |-> "corrupt", payload |-> {}, bagValid |-> FALSE],
           [kind |-> "truncated", payload |-> {NOTES_TXT}, bagValid |-> FALSE],
           [kind |-> "wrongroot", payload |-> {}, bagValid |-> FALSE] }

\* The conformance tool's stdout: a pass, a failure, nothing at all.
PASS_OUT == <<"p", "a", "s", "s", "!", " Everything is cool!">>

FAIL_OUT == <<"f", "a", "i", "l", "!", " This is an error!">>

ToolOutputs == { PASS_OUT, FAIL_OUT, <<>> }


(***************************************************************************)
(* The Validator's pure methods.                                           *)
(***************************************************************************)
\* self.refid = Path(source_filename).stem.split('.')[0]
RefidOf(filename) == SplitFirst(Stem(filename), ".")

\* re.compile(r"^[a-zA-Z0-9]{32}$").match(refid): 32 characters of the class
\* from the start, then `$`, which Python lets match at the end of the
\* string and also just before a line break that ends the string.
RefidMatches(refid) ==
    /\ Len(refid) >= REFID_LEN
    /\ \A i \in 1..REFID_LEN : IsAlnum(refid[i])
    /\ \/ Len(refid) = REFID_LEN
       \/ Len(refid) = REFID_LEN + 1 /\ refid[REFID_LEN + 1] = "\n"

\* Mutant: the pattern without its closing `$`.
validate_refid_unanchored(refid) ==
    /\ Len(refid) >= REFID_LEN
    /\ \A i \in 1..REFID_LEN : IsAlnum(refid[i])

\* validate_refid(refid): TRUE when it returns True, FALSE when it raises.
validate_refid(refid) == RefidMatches(refid)

RefidError(refid) == Exc("RefidError", refid \o <<" is not a valid refid.">>)

\* Mutant: the video structure without its mezzanine file.
get_expected_structure_no_mezzanine(fmt, refid, n_master_files) ==
    IF fmt = "audio"
    THEN IF n_master_files > 1
         THEN <<refid \o <<"_">> \o A_MP3>>
              \o [i \in 1..n_master_files |-> NumberedMaster(refid, i)]
         ELSE <<refid \o <<"_">> \o A_MP3, refid \o <<"_">> \o MA_WAV>>
    ELSE <<refid \o <<"_">> \o MA_MKV, refid \o <<"_">> \o A_MP4>>

\* Mutant: numbered masters counted from 0.
get_expected_structure_zero_based(fmt, refid, n_master_files) ==
    IF fmt = "audio"
    THEN IF n_master_files > 1
         THEN <<refid \o <<"_">> \o A_MP3>>
              \o [i \in 1..n_master_files |-> NumberedMaster(refid, i - 1)]
         ELSE <<refid \o <<"_">> \o A_MP3, refid \o <<"_">> \o MA_WAV>>
    ELSE <<refid \o <<"_">> \o MA_MKV, refid \o <<"_">> \o ME_MOV, refid \o <<"_">> \o A_MP4>>

\* Mutant: a video structure with one master per master file found.
get_expected_structure_video_per_master(fmt, refid, n_master_files) ==
    IF fmt = "audio"
    THEN IF n_master_files > 1
         THEN <<refid \o <<"_">> \o A_MP3>>
              \o [i \in 1..n_master_files |-> NumberedMaster(refid, i)]
         ELSE <<refid \o <<"_">> \o A_MP3, refid \o <<"_">> \o MA_WAV>>
    ELSE IF n_master_files > 1
         THEN <<refid \o <<"_">> \o ME_MOV, refid \o <<"_">> \o A_MP4>>
              \o [i \in 1..n_master_files |->
                     refid \o <<"_", "m", "a", "_">> \o Zfill(Str(i), ZFILL_WIDTH) \o DOT_MKV]
         ELSE <<refid \o <<"_">> \o MA_MKV, refid \o <<"_">> \o ME_MOV, refid \o <<"_">> \o A_MP4>>

\* get_expected_structure(master_files), which reads len(master_files) only.
get_expected_structure(fmt, refid, n_master_files) ==
    IF fmt = "audio"
    THEN IF n_master_files > 1
         THEN <<refid \o <<"_">> \o A_MP3>>
              \o [i \in 1..n_master_files |-> NumberedMaster(refid, i)]
         ELSE <<refid \o <<"_">> \o A_MP3, refid \o <<"_">> \o MA_WAV>>
    ELSE <<refid \o <<"_">> \o MA_MKV, refid \o <<"_">> \o ME_MOV, refid \o <<"_">> \o A_MP4>>

\* get_master_files(bag_path): the children of data/ that glob('*.wav')
\* (audio) or glob('*.mkv') (video) matches.
get_master_files(fmt, files) ==
    { f \in files : EndsWith(f, IF fmt = "audio" THEN DOT_WAV ELSE DOT_MKV) }

\* Mutant: an error message that lists the files in the order received.
AssetValidationError_unsorted(expected_files, actual_files) ==
    Exc("AssetValidationError",
        <<"The files delivered do not match what is expected.<br><br>Expected files:<br>">>
        \o Join(<<"<br>">>, expected_files)
        \o <<"<br><br>Actual files:<br>">>
        \o Join(<<"<br>">>, actual_files))

AssetValidationError(expected_files, actual_files) ==
    Exc("AssetValidationError",
        <<"The files delivered do not match what is expected.<br><br>Expected files:<br>">>
        \o Join(<<"<br>">>, Sorted(expected_files))
        \o <<"<br><br>Actual files:<br>">>
        \o Join(<<"<br>">>, Sorted(actual_files)))

\* validate_assets(bag_path), given the order in which iterdir() lists
\* data/: NoExc when it returns, the AssetValidationError it raises otherwise.
validate_assets(fmt, refid, listing) ==
    LET master_files == get_master_files(fmt, Range(listing))
        expected_files == get_expected_structure(fmt, refid, Cardinality(master_files))
        actual_files == listing
    IN  IF Range(expected_files) # Range(actual_files)
        THEN AssetValidationError(expected_files, actual_files)
        ELSE NoExc

policy_map ==
    [k \in {A_MP3, MA_WAV, A_MP4, MA_MKV, ME_MOV} |->
        CASE k = A_MP3 -> <<"RAC_Audio_A_MP3.xml">>
          [] k = MA_WAV -> <<"RAC_Audio_MA_WAV.xml">>
          [] k = A_MP4 -> <<"RAC_Video_A_MP4.xml">>
          [] k = MA_MKV -> <<"RAC_Video_MA_FFV1MKV.xml">>
          [] k = ME_MOV -> <<"RAC_Video_MEZZ_ProRes.xml">>]

NoPolicyError(filepath) ==
    ExcFrom("FileFormatValidationError",
            <<"No Mediaconch policy found for file ">> \o filepath \o <<".">>,
            Exc("KeyError", SplitLast(filepath, "_")))

\* Mutant: the key taken after the first '_' of the path, not the last.
get_policy_path_first_underscore(filepath) ==
    LET key == IF Positions(filepath, "_") = {} THEN filepath
               ELSE Slice(filepath, Min(Positions(filepath, "_")) + 1, Len(filepath))
    IN  IF key \in DOMAIN policy_map
        THEN [path |-> <<"mediaconch_policies", "/">> \o policy_map[key], exc |-> NoExc]
        ELSE [path |-> <<>>, exc |-> NoPolicyError(filepath)]

\* get_policy_path(filepath): the policy path in .path when it returns, the
\* FileFormatValidationError in .exc when it raises.
get_policy_path(filepath) ==
    LET key == SplitLast(filepath, "_")
    IN  IF key \in DOMAIN policy_map
        THEN [path |-> <<"mediaconch_policies", "/">> \o policy_map[key], exc |-> NoExc]
        ELSE [path |-> <<>>, exc |-> NoPolicyError(filepath)]

\* Mutant: an error that names the file but drops what the tool printed.
NotValidError_without_diagnostics(filepath, result) ==
    Exc("FileFormatValidationError",
        filepath \o <<" is not valid according to format policy">>)

NotValidError(filepath, result) ==
    Exc("FileFormatValidationError",
        filepath \o <<" is not valid according to format policy: ">> \o result)

\* Mutant: a loop that checks every file and raises at its end for the first
\* file that failed.
RECURSIVE FormatLoop_checks_all(_, _, _)
FormatLoop_checks_all(paths, out, i) ==
    IF i > Len(paths) THEN [exc |-> NoExc, log |-> <<>>]
    ELSE LET f == paths[i]
             policy == get_policy_path(f)
             result == out[f]
             this == <<[file |-> f, policy |-> policy.path, result |-> result]>>
             rest == FormatLoop_checks_all(paths, out, i + 1)
         IN  IF policy.exc # NoExc THEN [exc |-> policy.exc, log |-> rest.log]
             ELSE IF StartsWith(result, <<"f", "a", "i", "l", "!">>)
             THEN [exc |-> NotValidError(f, result), log |-> this \o rest.log]
             ELSE [exc |-> rest.exc, log |-> this \o rest.log]

\* validate_file_formats(bag_path) from the i-th file on, given the paths in
\* the order glob('data/*') yields them and what the tool prints for each:
\* .exc is NoExc when the loop ends, the error raised otherwise; .log lists
\* the tool's invocations.
RECURSIVE FormatLoop(_, _, _)
FormatLoop(paths, out, i) ==
    IF i > Len(paths) THEN [exc |-> NoExc, log |-> <<>>]
    ELSE LET f == paths[i]
             policy == get_policy_path(f)
             result == out[f]
             this == <<[file |-> f, policy |-> policy.path, result |-> result]>>
         IN  IF policy.exc # NoExc THEN [exc |-> policy.exc, log |-> <<>>]
             ELSE IF StartsWith(result, <<"f", "a", "i", "l", "!">>)
             THEN [exc |-> NotValidError(f, result), log |-> this]
             ELSE LET rest == FormatLoop(paths, out, i + 1)
                  IN  [exc |-> rest.exc, log |-> this \o rest.log]

validate_file_formats(paths, out) == FormatLoop(paths, out, 1)

AlreadyExistsError(refid) ==
    ExcFrom("AlreadyExistsError",
            <<"A package with refid ">> \o refid \o <<" is already waiting to be QCed.">>,
            Exc("FileExistsError", <<"[Errno 17] File exists">>))

ExtractError(e) == ExcFrom("ExtractError", <<"Error extracting TAR file: ">> \o e.msg, e)

\* traceback.format_exception(e): the lines of the exception being handled
\* when e was raised, then e's own traceback, then "type: description".
format_exception(e) ==
    (IF e.ctx_type = "" THEN <<>>
     ELSE << <<"Traceback (most recent call last):\n">>,
             <<"  File ..., line ..., in ...\n">>,
             <<e.ctx_type, ": ">> \o e.ctx_msg \o <<"\n">>,
             <<"\nDuring handling of the above exception, another exception occurred:\n\n">> >>)
    \o (IF e.tb
        THEN << <<"Traceback (most recent call last):\n">>, <<"  File ..., line ..., in ...\n">> >>
        ELSE <<>>)
    \o << <<e.type, ": ">> \o e.msg \o <<"\n">> >>

\* The event deliver_success_notification publishes.
SuccessEvent(fmt, refid, filename) ==
    [Message |-> <<fmt, " package ">> \o filename \o <<" successfully validated">>,
     MessageAttributes |->
        [format |-> fmt, refid |-> refid, service |-> "digitized_av_validation",
         outcome |-> "SUCCESS"]]

\* The message attribute of a failure event: f'{str(exception)}<br><br>{tb}'.
FailureMessage(e) == e.msg \o <<"<br><br>">> \o Join(<<"\n\n">>, format_exception(e))

\* Mutant: a failure event without the message attribute.
FailureEvent_without_message(fmt, refid, filename, e) ==
    [Message |-> <<fmt, " package ">> \o filename \o <<" is invalid">>,
     MessageAttributes |->
        [format |-> fmt, refid |-> refid, service |-> "digitized_av_validation",
         outcome |-> "FAILURE"]]

\* The event deliver_failure_notification(exception) publishes.
FailureEvent(fmt, refid, filename, e) ==
    [Message |-> <<fmt, " package ">> \o filename \o <<" is invalid">>,
     MessageAttributes |->
        [format |-> fmt, refid |-> refid, service |-> "digitized_av_validation",
         outcome |-> "FAILURE", message |-> FailureMessage(e)]]


(***************************************************************************)
(* The state: the Validator's fields, the position of run(), the storage   *)
(* it works on, and a record of what it has done.                          *)
(***************************************************************************)
VARIABLES
    format,           \* self.format
    source_filename,  \* self.source_filename
    tmp_dir,          \* self.tmp_dir
    refid,            \* self.refid
    pc,               \* "init", the step run() is about to call, or how it ended
    exc,              \* the exception `e` bound by run()'s except clause
    escaped,          \* the exception that left run(), NoExc when none did
    source,           \* the source object is in the source bucket
    fs,               \* the temporary directory
    dest,             \* {destination_dir}/{refid}
    package,          \* what the source object turned out to hold
    published,        \* the events published to the topic, in order
    calls,            \* the methods run() has called, in order
    completed,        \* the steps of the try block that returned
    toolLog,          \* the conformance tool's invocations, in order
    faults,           \* the collaborator failures that occurred, by call
    start,            \* the destination as the invocation found it
    applied           \* the method last called on its own, with input and result

\* What no action of run() assigns.
fields == <<format, source_filename, tmp_dir, refid, start, applied>>

vars ==
    <<format, source_filename, tmp_dir, refid, pc, exc, escaped, source, fs, dest,
      package, published, calls, completed, toolLog, faults, start, applied>>

\* No method has been called on its own.  A call is recorded with its
\* argument and with what it returned or raised (NoExc when it raised nothing).
NoCall == [method |-> "none"]

\* fs.tmp_dir: Path(tmp_dir) is a directory; fs.archive: the downloaded file
\* Path(tmp_dir, source_filename) exists; fs.bag: Path(tmp_dir, refid) is a
\* directory (for a non-empty refid); fs.data: the names of the children of
\* its data/; fs.stray: extraction left a tree under another name.
EmptyTmp == [tmp_dir |-> TRUE, archive |-> FALSE, bag |-> FALSE, data |-> {}, stray |-> FALSE]

\* A destination left by an earlier delivery of the same refid.
PriorDest(fmt, r) == [exists |-> TRUE, files |-> Range(get_expected_structure(fmt, r, 1))]

NoDest == [exists |-> FALSE, files |-> {}]

\* Assignments of __init__; its two checks are the action Validator_init.
Init ==
    /\ format \in Formats
    /\ source_filename \in SourceFilenames
    /\ tmp_dir \in TmpDirs
    /\ refid = RefidOf(source_filename)
    /\ pc = "init"
    /\ exc = NoExc
    /\ escaped = NoExc
    /\ source = TRUE
    /\ fs \in { [EmptyTmp EXCEPT !.tmp_dir = FALSE],
                EmptyTmp,
                [EmptyTmp EXCEPT !.bag = (refid # <<>>)] }
    /\ dest \in { NoDest, PriorDest(format, refid) }
    /\ package = NoPackage
    /\ published = <<>>
    /\ calls = <<>>
    /\ completed = {}
    /\ toolLog = <<>>
    /\ faults = {}
    /\ start = dest
    /\ applied = NoCall

(***************************************************************************)
(* run(): the try block calls RunSteps in order; an exception raised by    *)
(* any of them is bound to e and handled by the except clause.             *)
(***************************************************************************)
\* Mutant: relocation called before the file formats are checked.
RunSteps_relocate_early ==
    <<"validate_refid", "download_bag", "extract_bag", "validate_bag", "validate_assets",
      "move_to_destination", "validate_file_formats", "cleanup_binaries",
      "deliver_success_notification">>

\* Mutant: the success cleanup called before relocation.
RunSteps_cleanup_early ==
    <<"validate_refid", "download_bag", "extract_bag", "validate_bag", "validate_assets",
      "validate_file_formats", "cleanup_binaries", "move_to_destination",
      "deliver_success_notification">>

RunSteps ==
    <<"validate_refid", "download_bag", "extract_bag", "validate_bag", "validate_assets",
      "validate_file_formats", "move_to_destination", "cleanup_binaries",
      "deliver_success_notification">>

\* The position of run() after `step` returned.
StepAfter(step) ==
    LET i == CHOOSE k \in DOMAIN RunSteps : RunSteps[k] = step
    IN  IF i = Len(RunSteps) THEN "returned" ELSE RunSteps[i + 1]

Call(step, job_failed, arg) == [step |-> step, job_failed |-> job_failed, arg |-> arg]

\* `step` of the try block was called and returned.
Returns(step) ==
    /\ pc' = StepAfter(step)
    /\ calls' = Append(calls, Call(step, FALSE, NoExc))
    /\ completed' = completed \cup {step}
    /\ UNCHANGED exc

\* `step` of the try block was called and raised e: `except Exception as e`.
Raises(step, e) ==
    /\ pc' = "except_cleanup"
    /\ calls' = Append(calls, Call(step, FALSE, NoExc))
    /\ exc' = e
    /\ UNCHANGED completed

\* extracted = Path(self.tmp_dir, self.refid), which is tmp_dir itself when
\* the refid is empty.
ExtractedIsDir == IF refid = <<>> THEN fs.tmp_dir ELSE fs.bag

\* str(f) for the child `name` of data/, as bag_path.glob('data/*') yields it.
FilePath(name) == PathJoin(PathJoin(PathJoin(tmp_dir, refid), <<"d", "a", "t", "a">>), name)

\* Mutant: a constructor that accepts any format.
Validator_init_any_format ==
    /\ pc = "init"
    /\ pc' = RunSteps[1]
    /\ fs' = [fs EXCEPT !.tmp_dir = TRUE]
    /\ UNCHANGED <<fields, exc, escaped, source, dest, package, published, calls, completed,
                   toolLog, faults>>

\* The checks of __init__.
Validator_init ==
    /\ pc = "init"
    /\ IF format \notin {"audio", "video"}
       THEN /\ pc' = "crashed"
            /\ escaped' = Exc("Exception", <<"Cannot process file with format ", format, ".">>)
            /\ UNCHANGED fs
       ELSE /\ pc' = RunSteps[1]
            /\ fs' = [fs EXCEPT !.tmp_dir = TRUE]
            /\ UNCHANGED escaped
    /\ UNCHANGED <<fields, exc, source, dest, package, published, calls, completed, toolLog, faults>>

Step_validate_refid ==
    /\ pc = "validate_refid"
    /\ IF validate_refid(refid)
       THEN Returns("validate_refid")
       ELSE Raises("validate_refid", RefidError(refid))
    /\ UNCHANGED <<fields, escaped, source, fs, dest, package, published, toolLog, faults>>

Step_download_bag ==
    /\ pc = "download_bag"
    /\ \/ /\ source
          /\ \E pkg \in Packages(format, refid) : package' = pkg
          /\ fs' = [fs EXCEPT !.archive = TRUE]
          /\ Returns("download_bag")
          /\ UNCHANGED faults
       \/ /\ \E f \in {"role", "download"} :
               /\ faults' = faults \cup {<<"download_bag", f>>}
               /\ Raises("download_bag", IF f = "role" THEN AssumeRoleFailed ELSE DownloadFailed)
          /\ UNCHANGED <<fs, package>>
    /\ UNCHANGED <<fields, escaped, source, dest, published, toolLog>>

Step_extract_bag ==
    /\ pc = "extract_bag"
    /\ CASE package.kind = "bag" ->
              /\ fs' = [fs EXCEPT !.bag = TRUE, !.data = @ \cup package.payload,
                                  !.archive = FALSE]
              /\ Returns("extract_bag")
         [] package.kind = "wrongroot" ->
              /\ fs' = [fs EXCEPT !.stray = TRUE, !.archive = FALSE]
              /\ Returns("extract_bag")
         [] package.kind = "truncated" ->
              /\ fs' = [fs EXCEPT !.bag = TRUE, !.data = @ \cup package.payload]
              /\ Raises("extract_bag", ExtractError(TarTruncated))
         [] OTHER ->
              /\ UNCHANGED fs
              /\ Raises("extract_bag", ExtractError(TarReadFailed))
    /\ UNCHANGED <<fields, escaped, source, dest, package, published, toolLog, faults>>

Step_validate_bag ==
    /\ pc = "validate_bag"
    /\ IF ~ExtractedIsDir \/ package.kind # "bag" THEN Raises("validate_bag", NotABag)
       ELSE IF ~package.bagValid THEN Raises("validate_bag", BagInvalid)
       ELSE Returns("validate_bag")
    /\ UNCHANGED <<fields, escaped, source, fs, dest, package, published, toolLog, faults>>

Step_validate_assets ==
    /\ pc = "validate_assets"
    /\ \E listing \in Perms(fs.data) :
          LET e == validate_assets(format, refid, listing)
          IN  IF e = NoExc THEN Returns("validate_assets") ELSE Raises("validate_assets", e)
    /\ UNCHANGED <<fields, escaped, source, fs, dest, package, published, toolLog, faults>>

Step_validate_file_formats ==
    /\ pc = "validate_file_formats"
    /\ \E order \in Perms({ FilePath(n) : n \in fs.data }) :
       \E out \in [Range(order) -> ToolOutputs] :
          LET r == validate_file_formats(order, out)
          IN  /\ toolLog' = r.log
              /\ IF r.exc = NoExc
                 THEN Returns("validate_file_formats")
                 ELSE Raises("validate_file_formats", r.exc)
    /\ UNCHANGED <<fields, escaped, source, fs, dest, package, published, faults>>


\* Mutant: a copy that merges into an existing destination (dirs_exist_ok).
Step_move_to_destination_merging ==
    /\ pc = "move_to_destination"
    /\ \/ /\ dest' = [exists |-> TRUE, files |-> dest.files \cup fs.data]
          /\ Returns("move_to_destination")
          /\ UNCHANGED faults
       \/ /\ ~dest.exists
          /\ \E part \in (SUBSET fs.data) \ {fs.data} :
                dest' = [exists |-> TRUE, files |-> part]
          /\ faults' = faults \cup {<<"move_to_destination", "copy">>}
          /\ Raises("move_to_destination", CopyFailed)
    /\ UNCHANGED <<fields, escaped, source, fs, package, published, toolLog>>

\* Mutant: a copy that replaces an existing destination.
Step_move_to_destination_replacing ==
    /\ pc = "move_to_destination"
    /\ \/ /\ dest' = [exists |-> TRUE, files |-> fs.data]
          /\ Returns("move_to_destination")
          /\ UNCHANGED faults
       \/ /\ \E part \in (SUBSET fs.data) \ {fs.data} :
                dest' = [exists |-> TRUE, files |-> part]
          /\ faults' = faults \cup {<<"move_to_destination", "copy">>}
          /\ Raises("move_to_destination", CopyFailed)
    /\ UNCHANGED <<fields, escaped, source, fs, package, published, toolLog>>

\* move_to_destination(bag_path): copytree refuses an existing destination;
\* otherwise it creates it and copies the children of data/, all of them or,
\* when the copy breaks off, only `part` of them.
Step_move_to_destination ==
    /\ pc = "move_to_destination"
    /\ \/ /\ dest.exists
          /\ Raises("move_to_destination", AlreadyExistsError(refid))
          /\ UNCHANGED <<dest, faults>>
       \/ /\ ~dest.exists
          /\ dest' = [exists |-> TRUE, files |-> fs.data]
          /\ Returns("move_to_destination")
          /\ UNCHANGED faults
       \/ /\ ~dest.exists
          /\ \E part \in (SUBSET fs.data) \ {fs.data} :
                dest' = [exists |-> TRUE, files |-> part]
          /\ faults' = faults \cup {<<"move_to_destination", "copy">>}
          /\ Raises("move_to_destination", CopyFailed)
    /\ UNCHANGED <<fields, escaped, source, fs, package, published, toolLog>>

\* The temporary directory after rmtree(bag_path).
Rmtree(tmp) ==
    IF refid = <<>>
    THEN [tmp_dir |-> FALSE, archive |-> FALSE, bag |-> FALSE, data |-> {}, stray |-> FALSE]
    ELSE [tmp EXCEPT !.bag = FALSE, !.data = {}]

\* The collaborator failures cleanup_binaries may meet.
CleanupFaults(job_failed) ==
    {"none", "role"}
    \cup (IF ExtractedIsDir THEN {"rmtree"} ELSE {})
    \cup (IF job_failed THEN {} ELSE {"delete"})

\* Mutant: a cleanup that never deletes the source object.
cleanup_binaries_keeps_source(job_failed, fault) ==
    IF fault = "role" THEN [exc |-> AssumeRoleFailed, fs |-> fs, source |-> source]
    ELSE IF fault = "rmtree" THEN [exc |-> RmtreeFailed, fs |-> fs, source |-> source]
    ELSE [exc |-> IF ~job_failed /\ fault = "delete" THEN DeleteFailed ELSE NoExc,
          fs |-> IF ExtractedIsDir THEN Rmtree(fs) ELSE fs,
          source |-> source]

\* Mutant: a cleanup that removes the working directory only after a success.
cleanup_binaries_keeps_dir_on_failure(job_failed, fault) ==
    IF fault = "role" THEN [exc |-> AssumeRoleFailed, fs |-> fs, source |-> source]
    ELSE IF fault = "rmtree" THEN [exc |-> RmtreeFailed, fs |-> fs, source |-> source]
    ELSE IF job_failed THEN [exc |-> NoExc, fs |-> fs, source |-> source]
    ELSE [exc |-> IF fault = "delete" THEN DeleteFailed ELSE NoExc,
          fs |-> IF ExtractedIsDir THEN Rmtree(fs) ELSE fs,
          source |-> (fault = "delete" /\ source)]

\* Mutant: a cleanup that removes the working directory without looking.
cleanup_binaries_unguarded(job_failed, fault) ==
    IF fault = "role" THEN [exc |-> AssumeRoleFailed, fs |-> fs, source |-> source]
    ELSE IF fault = "rmtree" \/ ~ExtractedIsDir
    THEN [exc |-> RmtreeFailed, fs |-> fs, source |-> source]
    ELSE IF job_failed THEN [exc |-> NoExc, fs |-> Rmtree(fs), source |-> source]
    ELSE IF fault = "delete" THEN [exc |-> DeleteFailed, fs |-> Rmtree(fs), source |-> source]
    ELSE [exc |-> NoExc, fs |-> Rmtree(fs), source |-> FALSE]

\* cleanup_binaries(bag_path, job_failed) when the collaborator failure
\* `fault` occurs: the exception it raises (NoExc when it returns), and the
\* temporary directory and the source bucket it leaves.
cleanup_binaries(job_failed, fault) ==
    IF fault = "role" THEN [exc |-> AssumeRoleFailed, fs |-> fs, source |-> source]
    ELSE IF fault = "rmtree" THEN [exc |-> RmtreeFailed, fs |-> fs, source |-> source]
    ELSE LET removed == IF ExtractedIsDir THEN Rmtree(fs) ELSE fs
         IN  IF job_failed THEN [exc |-> NoExc, fs |-> removed, source |-> source]
             ELSE IF fault = "delete" THEN [exc |-> DeleteFailed, fs |-> removed, source |-> source]
             ELSE [exc |-> NoExc, fs |-> removed, source |-> FALSE]

\* self.cleanup_binaries(extracted) in the try block.
Step_cleanup_binaries ==
    /\ pc = "cleanup_binaries"
    /\ \E fault \in CleanupFaults(FALSE) :
          LET r == cleanup_binaries(FALSE, fault)
          IN  /\ fs' = r.fs
              /\ source' = r.source
              /\ faults' = IF fault = "none" THEN faults
                           ELSE faults \cup {<<"cleanup_binaries", fault>>}
              /\ IF r.exc = NoExc THEN Returns("cleanup_binaries")
                 ELSE Raises("cleanup_binaries", r.exc)
    /\ UNCHANGED <<fields, escaped, dest, package, published, toolLog>>

\* self.deliver_success_notification() in the try block.  A publish that
\* raises has published nothing.
Step_deliver_success_notification ==
    /\ pc = "deliver_success_notification"
    /\ \/ /\ published' = Append(published, SuccessEvent(format, refid, source_filename))
          /\ Returns("deliver_success_notification")
          /\ UNCHANGED faults
       \/ /\ \E f \in {"role", "publish"} :
               /\ faults' = faults \cup {<<"deliver_success_notification", f>>}
               /\ Raises("deliver_success_notification",
                         IF f = "role" THEN AssumeRoleFailed ELSE PublishFailed)
          /\ UNCHANGED published
    /\ UNCHANGED <<fields, escaped, source, fs, dest, package, toolLog>>

\* The except clause, first call: self.cleanup_binaries(extracted,
\* job_failed=True).  An exception it raises leaves run().
Except_cleanup_binaries ==
    /\ pc = "except_cleanup"
    /\ \E fault \in CleanupFaults(TRUE) :
          LET r == cleanup_binaries(TRUE, fault)
          IN  /\ fs' = r.fs
              /\ source' = r.source
              /\ faults' = IF fault = "none" THEN faults
                           ELSE faults \cup {<<"except_cleanup", fault>>}
              /\ escaped' = r.exc
              /\ pc' = IF r.exc = NoExc THEN "except_notify" ELSE "raised"
    /\ calls' = Append(calls, Call("cleanup_binaries", TRUE, NoExc))
    /\ UNCHANGED <<fields, exc, dest, package, published, completed, toolLog>>

\* The except clause, second call: self.deliver_failure_notification(e).
Except_deliver_failure_notification ==
    /\ pc = "except_notify"
    /\ \/ /\ published' = Append(published, FailureEvent(format, refid, source_filename, exc))
          /\ pc' = "returned"
          /\ UNCHANGED <<escaped, faults>>
       \/ /\ \E f \in {"role", "publish"} :
               /\ faults' = faults \cup {<<"except_notify", f>>}
               /\ escaped' = IF f = "role" THEN AssumeRoleFailed ELSE PublishFailed
          /\ pc' = "raised"
          /\ UNCHANGED published
    /\ calls' = Append(calls, Call("deliver_failure_notification", FALSE, exc))
    /\ UNCHANGED <<fields, exc, source, fs, dest, package, completed, toolLog>>

Next ==
    \/ Validator_init
    \/ Step_validate_refid
    \/ Step_download_bag
    \/ Step_extract_bag
    \/ Step_validate_bag
    \/ Step_validate_assets
    \/ Step_validate_file_formats
    \/ Step_move_to_destination
    \/ Step_cleanup_binaries
    \/ Step_deliver_success_notification
    \/ Except_cleanup_binaries
    \/ Except_deliver_failure_notification

Spec == Init /\ [][Next]_vars


(***************************************************************************)
(* The methods called on their own, as the unit tests call them: on a      *)
(* constructed Validator, with inputs drawn from the sets below.           *)
(***************************************************************************)
\* Strings validate_refid is called with: the refids of the model, and
\* 32-character strings of capitals, of digits, with an underscore, with a
\* leading blank, ending in a line break, and 32 characters followed by a
\* line break and one more character.
RefidStrings ==
    RefidSamples
    \cup { Rep("Z", REFID_LEN),
           Rep("0", REFID_LEN),
           Rep("b", REFID_LEN - 2) \o <<"_", "b">>,
           <<" ">> \o Rep("b", REFID_LEN - 1),
           Rep("b", REFID_LEN - 1) \o <<"\n">>,
           Rep("b", REFID_LEN) \o <<"\n", "b">> }

\* The names a data/ directory handed to validate_assets may hold.
UnitCandidates(fmt, r) ==
    IF fmt = "video"
    THEN { r \o <<"_">> \o MA_MKV, r \o <<"_">> \o ME_MOV, r \o <<"_">> \o A_MP4, NOTES_TXT }
    ELSE { r \o <<"_">> \o A_MP3, r \o <<"_">> \o MA_WAV, NOTES_TXT }
         \cup { NumberedMaster(r, i) : i \in 1..MaxListed }

\* What get_actual_structure may return for the directory `dir`: its names in
\* any order, and (from a stub) in any order with one name repeated.
Listings(dir) ==
    Perms(dir) \cup { l \o <<l[1]>> : l \in Perms(dir) \ { <<>> } }

BAR == <<"b", "a", "r">>

\* Directory parts of the paths get_policy_path is called with: none, /foo,
\* /foo/buzz_baz, /t_d.
UnitDirs ==
    { <<>>,
      <<"/", "f", "o", "o">>,
      <<"/", "f", "o", "o", "/", "b", "u", "z", "z", "_", "b", "a", "z">>,
      <<"/", "t", "_", "d">> }

\* File names get_policy_path is called with: bar_<key> for each key of the
\* policy map, each key alone, and names without a policy.
UnitNames ==
    { BAR \o <<"_">> \o k : k \in DOMAIN policy_map }
    \cup DOMAIN policy_map
    \cup { BAR \o <<"_", "x", "_">> \o A_MP3,
           BAR \o <<"_", "m", "a", "_", "0", "1">> \o DOT_WAV,
           BAR \o <<"_", "A", ".", "M", "P", "3">>,
           BAR \o <<"_">> \o A_MP3 \o <<".", "b", "a", "k">>,
           <<"f", "o", "o", ".", "t", "x", "t">> }

UnitPaths == { PathJoin(d, n) : d \in UnitDirs \ { <<>> }, n \in UnitNames } \cup UnitNames

\* A Validator constructed for the source file bar.tar.gz.
UnitInit ==
    /\ format \in {"audio", "video"}
    /\ source_filename = BAR \o TAR_GZ
    /\ tmp_dir = <<"/", "v">>
    /\ refid = RefidOf(source_filename)
    /\ pc = "unit"
    /\ exc = NoExc
    /\ escaped = NoExc
    /\ source = TRUE
    /\ fs = EmptyTmp
    /\ dest = NoDest
    /\ package = NoPackage
    /\ published = <<>>
    /\ calls = <<>>
    /\ completed = {}
    /\ toolLog = <<>>
    /\ faults = {}
    /\ start = dest
    /\ applied = NoCall

\* validator.validate_refid(s)
Apply_validate_refid ==
    /\ pc = "unit"
    /\ pc' = "applied"
    /\ \E s \in RefidStrings :
          applied' = [method |-> "validate_refid", s |-> s,
                      raised |-> IF validate_refid(s) THEN NoExc ELSE RefidError(s)]
    /\ UNCHANGED <<format, source_filename, tmp_dir, refid, exc, escaped, source, fs,
                   dest, package, published, calls, completed, toolLog, faults, start>>

\* validator.get_expected_structure(master_files) with len(master_files) = n
Apply_get_expected_structure ==
    /\ pc = "unit"
    /\ pc' = "applied"
    /\ \E n \in 0..MaxCount :
          applied' = [method |-> "get_expected_structure", n |-> n,
                      returned |-> get_expected_structure(format, refid, n)]
    /\ UNCHANGED <<format, source_filename, tmp_dir, refid, exc, escaped, source, fs,
                   dest, package, published, calls, completed, toolLog, faults, start>>

\* validator.validate_assets(bag_path) on a data/ directory holding `dir`
Apply_validate_assets ==
    /\ pc = "unit"
    /\ pc' = "applied"
    /\ \E dir \in SUBSET UnitCandidates(format, refid) :
       \E listing \in Listings(dir) :
          applied' = [method |-> "validate_assets", listing |-> listing,
                      raised |-> validate_assets(format, refid, listing)]
    /\ UNCHANGED <<format, source_filename, tmp_dir, refid, exc, escaped, source, fs,
                   dest, package, published, calls, completed, toolLog, faults, start>>

\* validator.get_policy_path(Path(p))
Apply_get_policy_path ==
    /\ pc = "unit"
    /\ pc' = "applied"
    /\ \E p \in UnitPaths :
          applied' = [method |-> "get_policy_path", filepath |-> p,
                      returned |-> get_policy_path(p)]
    /\ UNCHANGED <<format, source_filename, tmp_dir, refid, exc, escaped, source, fs,
                   dest, package, published, calls, completed, toolLog, faults, start>>

\* Exceptions deliver_failure_notification is called with on its own:
\* Exception("foo") that was never raised, and one that was raised and caught.
UnitExceptions ==
    { [Exc("Exception", <<"f", "o", "o">>) EXCEPT !.tb = FALSE],
      Exc("Exception", <<"f", "o", "o">>) }

\* validator.deliver_failure_notification(e), with a topic that accepts the event
Apply_deliver_failure_notification ==
    /\ pc = "unit"
    /\ pc' = "applied"
    /\ \E e \in UnitExceptions :
          /\ published' = Append(published, FailureEvent(format, refid, source_filename, e))
          /\ applied' = [method |-> "deliver_failure_notification", exception |-> e]
    /\ UNCHANGED <<format, source_filename, tmp_dir, refid, exc, escaped, source, fs,
                   dest, package, calls, completed, toolLog, faults, start>>

UnitNext ==
    \/ Apply_validate_refid
    \/ Apply_get_expected_structure
    \/ Apply_validate_assets
    \/ Apply_get_policy_path
    \/ Apply_deliver_failure_notification

UnitSpec == UnitInit /\ [][UnitNext]_vars

(***************************************************************************)
(* validate_file_formats called on the same data/ directory, one that      *)
(* passes validate_assets, with the same tool output for each file, under  *)
(* two orders of the directory listing.                                    *)
(***************************************************************************)
\* The event run() publishes once validate_file_formats has raised e; none
\* when it returned.
EventAfter(e) ==
    IF e = NoExc THEN <<>>
    ELSE <<FailureEvent(format, refid, source_filename, e)>>

\* bag_path.glob('data/*') yields `first`, the names in ascending order, in one
\* run and `second`, the names in any order, in the other
Apply_validate_file_formats ==
    /\ pc = "unit"
    /\ pc' = "applied"
    /\ \E dir \in { d \in SUBSET Candidates(format, refid) :
                      \A l \in Perms(d) : validate_assets(format, refid, l) = NoExc } :
       \E first \in Perms({ FilePath(n) : n \in dir }) :
       \E second \in Perms({ FilePath(n) : n \in dir }) :
       \E out \in [Range(first) -> ToolOutputs] :
          /\ first = Sorted(first)
          /\ applied' = [method |-> "validate_file_formats",
                         tool |-> out,
                         listed |-> <<first, second>>,
                         events |-> <<EventAfter(validate_file_formats(first, out).exc),
                                      EventAfter(validate_file_formats(second, out).exc)>>]
    /\ UNCHANGED <<format, source_filename, tmp_dir, refid, exc, escaped, source, fs,
                   dest, package, published, calls, completed, toolLog, faults, start>>

OrderNext == Apply_validate_file_formats

OrderSpec == UnitInit /\ [][OrderNext]_vars


(***************************************************************************)
(* cleanup_binaries called on its own, as test_cleanup_binaries calls it,  *)
(* up to MaxCleanups times on one Validator.                               *)
(***************************************************************************)
\* What cleanup_binaries may find and change.
Surroundings == [fs |-> fs, source |-> source, dest |-> dest, is_dir |-> ExtractedIsDir]

\* A Validator constructed for a well-formed or an empty refid; the working
\* directory absent, or present with a package's files; the source object
\* present or not; a destination present or not.
CleanupInit ==
    /\ format = "audio"
    /\ source_filename \in { Rep("a", REFID_LEN - 3) \o <<"Z", "0", "9">> \o TAR_GZ, TAR_GZ }
    /\ tmp_dir = <<"/", "v">>
    /\ refid = RefidOf(source_filename)
    /\ pc = "unit"
    /\ exc = NoExc
    /\ escaped = NoExc
    /\ source \in BOOLEAN
    /\ fs \in { EmptyTmp,
                [EmptyTmp EXCEPT !.archive = TRUE],
                [EmptyTmp EXCEPT !.stray = TRUE],
                [EmptyTmp EXCEPT !.bag = TRUE,
                                 !.data = Range(get_expected_structure(format, refid, 1))] }
    /\ dest \in { NoDest, PriorDest(format, refid) }
    /\ package = NoPackage
    /\ published = <<>>
    /\ calls = <<>>
    /\ completed = {}
    /\ toolLog = <<>>
    /\ faults = {}
    /\ start = dest
    /\ applied = NoCall

\* validator.cleanup_binaries(tmp_path, job_failed=job_failed)
Apply_cleanup_binaries ==
    /\ pc \in {"unit", "applied"}
    /\ Len(calls) < MaxCleanups
    /\ pc' = "applied"
    /\ \E job_failed \in BOOLEAN :
       \E fault \in CleanupFaults(job_failed) :
          LET r == cleanup_binaries(job_failed, fault)
          IN  /\ fs' = r.fs
              /\ source' = r.source
              /\ faults' = IF fault = "none" THEN faults
                           ELSE faults \cup {<<"cleanup_binaries", fault>>}
              /\ calls' = Append(calls, Call("cleanup_binaries", job_failed, NoExc))
              /\ applied' = [method |-> "cleanup_binaries", job_failed |-> job_failed,
                             found |-> Surroundings, cleanup_raised |-> r.exc]
    /\ UNCHANGED <<format, source_filename, tmp_dir, refid, exc, escaped, dest, package,
                   published, completed, toolLog, start>>

CleanupNext == Apply_cleanup_binaries

CleanupSpec == CleanupInit /\ [][CleanupNext]_vars


(***************************************************************************)
(* Two invocations of run() for the same refid, as two processes started   *)
(* by the __main__ block for the same SOURCE_FILENAME: the variables hold  *)
(* the invocation that is running, `applied` holds the other one, and      *)
(* Switch hands the processor over between any two steps.  The source      *)
(* bucket and the destination are shared; each invocation has its own      *)
(* temporary directory.                                                    *)
(***************************************************************************)
\* The state of one invocation that the other cannot see.
Invocation ==
    [method |-> "run", tmp_dir |-> tmp_dir, pc |-> pc, exc |-> exc, escaped |-> escaped,
     fs |-> fs, package |-> package, published |-> published, calls |-> calls,
     completed |-> completed, toolLog |-> toolLog, faults |-> faults, start |-> start]

\* The package both invocations are given: the expected files of a package
\* with one master, in a valid bag.
PairPackage ==
    [kind |-> "bag", payload |-> Range(get_expected_structure(format, refid, 1)),
     bagValid |-> TRUE]

\* Both packages pass every validation: the bag is the one above and the
\* tool has printed pass! for every file it was run on.
PairPremise ==
    /\ package \in {NoPackage, PairPackage}
    /\ \A i \in DOMAIN toolLog : toolLog[i].result = PASS_OUT

PairInit ==
    /\ format \in {"audio", "video"}
    /\ source_filename = Rep("a", REFID_LEN - 3) \o <<"Z", "0", "9">> \o TAR_GZ
    /\ tmp_dir = <<"/", "v">>
    /\ refid = RefidOf(source_filename)
    /\ pc = "init"
    /\ exc = NoExc
    /\ escaped = NoExc
    /\ source = TRUE
    /\ fs = EmptyTmp
    /\ dest = NoDest
    /\ package = NoPackage
    /\ published = <<>>
    /\ calls = <<>>
    /\ completed = {}
    /\ toolLog = <<>>
    /\ faults = {}
    /\ start = dest
    /\ applied = [Invocation EXCEPT !.tmp_dir = <<"/", "t", "_", "d">>]

\* The running invocation takes one step of run().
PairStep == Next /\ PairPremise'

\* The other invocation gets the processor.
Switch ==
    /\ tmp_dir' = applied.tmp_dir
    /\ pc' = applied.pc
    /\ exc' = applied.exc
    /\ escaped' = applied.escaped
    /\ fs' = applied.fs
    /\ package' = applied.package
    /\ published' = applied.published
    /\ calls' = applied.calls
    /\ completed' = applied.completed
    /\ toolLog' = applied.toolLog
    /\ faults' = applied.faults
    /\ start' = applied.start
    /\ applied' = Invocation
    /\ UNCHANGED <<format, source_filename, refid, source, dest>>

\* The package is delivered to the source bucket again.
Redeliver ==
    /\ ~source
    /\ source' = TRUE
    /\ UNCHANGED <<fields, pc, exc, escaped, fs, dest, package, published, calls,
                   completed, toolLog, faults>>

PairNext ==
    \/ PairStep
    \/ Switch
    \/ Redeliver

PairSpec == PairInit /\ [][PairNext]_vars


(***************************************************************************)
(* The object-store variant (src/validate.py): the same state, with the    *)
(* destination read as a bucket (dest.files is the set of its keys) and    *)
(* fs, source, package, published as above.                                *)
(***************************************************************************)
\* f"{self.refid}/{path_obj.name}"
Key(r, name) == r \o <<"/">> \o name

\* An object of another package in the destination bucket.
OTHER_KEY == <<"z", "z", "/", "z", "z", "_", "a", ".", "m", "p", "3">>

\* path_obj.suffix: the name from its last dot on, "" when it has none.
Suffix(name) ==
    LET dots == Positions(name, ".")
    IN  IF dots # {} /\ Max(dots) > 1 /\ Max(dots) < Len(name)
        THEN Slice(name, Max(dots), Len(name))
        ELSE <<>>

format_map ==
    [e \in { DOT_MKV, <<".", "m", "o", "v">>, <<".", "m", "p", "4">>, DOT_WAV,
             <<".", "m", "p", "3">> } |->
        CASE e = DOT_MKV -> "video/x-matroska"
          [] e = <<".", "m", "o", "v">> -> "video/quicktime"
          [] e = <<".", "m", "p", "4">> -> "video/mp4"
          [] e = DOT_WAV -> "audio/x-wav"
          [] e = <<".", "m", "p", "3">> -> "audio/mpeg"]

UnknownExtensionError(extension) ==
    ExcFrom("Exception",
            <<"Unable to upload asset with unknown extension ">> \o extension \o <<".">>,
            Exc("KeyError", extension))

\* get_content_type(extension): the type in .type, or the error in .exc.
get_content_type(extension) ==
    IF extension \in DOMAIN format_map
    THEN [type |-> format_map[extension], exc |-> NoExc]
    ELSE [type |-> "", exc |-> UnknownExtensionError(extension)]

\* What the clients of the object-store variant raise when they fail.
UploadFailed == Exc("S3UploadFailedError", <<"Failed to upload file">>)

ListFailed == Exc("ClientError", <<"An error occurred (AccessDenied) when calling the ListObjectsV2 operation">>)

DeleteObjectsFailed == Exc("ClientError", <<"An error occurred (MalformedXML) when calling the DeleteObjects operation">>)

NoBagDirectory == Exc("FileNotFoundError", <<"[Errno 2] No such file or directory">>)

\* suffix_map of validate_assets.
suffix_map(fmt) ==
    IF fmt = "audio"
    THEN << <<MA_WAV, "Master">>, <<A_MP3, "Access">> >>
    ELSE << <<MA_MKV, "Master">>, <<ME_MOV, "Mezzanine">>, <<A_MP4, "Access">> >>

MissingFileError(filetype, filename) ==
    Exc("AssetValidationError", <<filetype, " file ">> \o filename \o <<" missing.">>)

\* validate_assets(bag_path) of the object-store variant on a data/
\* directory holding `files`: the error for the first suffix of suffix_map
\* whose file is missing, NoExc when none is.
S3_validate_assets(fmt, r, files) ==
    LET entries == suffix_map(fmt)
        missing == { i \in DOMAIN entries : (r \o <<"_">> \o entries[i][1]) \notin files }
    IN  IF missing = {} THEN NoExc
        ELSE LET i == Min(missing)
             IN  MissingFileError(entries[i][2], r \o <<"_">> \o entries[i][1])

\* The exit codes of the tool's two runs on one file: the first decides, the
\* second is quoted in the error.
ExitCodes == { <<0, 0>>, <<1, 0>>, <<1, 1>> }

\* The loop of validate_file_formats from the i-th file on, given the tool's
\* exit codes for each file: the error raised, NoExc when the loop ends.
RECURSIVE S3_FormatLoop(_, _, _)
S3_FormatLoop(paths, code, i) ==
    IF i > Len(paths) THEN NoExc
    ELSE LET result == code[paths[i]][1]
             error == code[paths[i]][2]
         IN  IF result # 0
             THEN Exc("FileFormatValidationError",
                      paths[i] \o <<" is not valid according to format policy: ">>
                               \o Str(error))
             ELSE S3_FormatLoop(paths, code, i + 1)

\* The loop of move_to_destination from the i-th file on, when the transfer
\* of the failAt-th file fails (0: none does): the error raised and the keys
\* written.  The content type is computed before the file is uploaded.
RECURSIVE UploadLoop(_, _, _)
UploadLoop(names, failAt, i) ==
    IF i > Len(names) THEN [exc |-> NoExc, keys |-> {}]
    ELSE LET ct == get_content_type(Suffix(names[i]))
         IN  IF ct.exc # NoExc THEN [exc |-> ct.exc, keys |-> {}]
             ELSE IF i = failAt THEN [exc |-> UploadFailed, keys |-> {}]
             ELSE LET rest == UploadLoop(names, failAt, i + 1)
                  IN  [exc |-> rest.exc, keys |-> {Key(refid, names[i])} \cup rest.keys]

\* The keys list_objects_v2(Prefix=self.refid) returns.
WithPrefix(keys, prefix) == { k \in keys : StartsWith(k, prefix) }

\* The events of the object-store variant; the failure message is str(e).
S3_FailureEvent(fmt, r, filename, e) ==
    [Message |-> <<fmt, " package ">> \o filename \o <<" is invalid">>,
     MessageAttributes |->
        [format |-> fmt, refid |-> r, service |-> "digitized_av_validation",
         outcome |-> "FAILURE", message |-> e.msg]]

\* The source objects of the object-store variant's runs: a well-formed
\* refid, and a file name that begins with a dot, whose refid is empty.
S3_SourceFilenames == { Rep("a", REFID_LEN - 3) \o <<"Z", "0", "9">> \o TAR_GZ, TAR_GZ }

\* The names a package's data/ directory may hold in the object-store
\* variant, which knows one master per package.
S3_Candidates(fmt, r) ==
    { r \o <<"_">> \o suffix_map(fmt)[i][1] : i \in DOMAIN suffix_map(fmt) } \cup {NOTES_TXT}

\* What the source object may turn out to be, as for Packages.
S3_Packages(fmt, r) ==
    { [kind |-> "bag", payload |-> p, bagValid |-> TRUE] : p \in SUBSET S3_Candidates(fmt, r) }
    \cup { [kind |-> "bag", payload |-> S3_Candidates(fmt, r) \ {NOTES_TXT}, bagValid |-> FALSE],
           [kind |-> "corrupt", payload |-> {}, bagValid |-> FALSE],
           [kind |-> "truncated", payload |-> {NOTES_TXT}, bagValid |-> FALSE],
           [kind |-> "wrongroot", payload |-> {}, bagValid |-> FALSE] }

\* Assignments of __init__ of the object-store variant.
S3_Init ==
    /\ format \in Formats
    /\ source_filename \in S3_SourceFilenames
    /\ tmp_dir = <<"/", "v">>
    /\ refid = RefidOf(source_filename)
    /\ pc = "init"
    /\ exc = NoExc
    /\ escaped = NoExc
    /\ source = TRUE
    /\ fs \in { [EmptyTmp EXCEPT !.tmp_dir = FALSE], EmptyTmp }
    /\ dest \in { [exists |-> TRUE, files |-> ks] :
                    ks \in SUBSET { OTHER_KEY, Key(refid, refid \o <<"_">> \o A_MP3) } }
    /\ package = NoPackage
    /\ published = <<>>
    /\ calls = <<>>
    /\ completed = {}
    /\ toolLog = <<>>
    /\ faults = {}
    /\ start = dest
    /\ applied = NoCall

\* The try block of run() of the object-store variant.
S3_RunSteps ==
    <<"download_bag", "extract_bag", "validate_bag", "validate_assets",
      "validate_file_formats", "move_to_destination", "cleanup_successful_job",
      "deliver_success_notification">>

S3_StepAfter(step) ==
    LET i == CHOOSE k \in DOMAIN S3_RunSteps : S3_RunSteps[k] = step
    IN  IF i = Len(S3_RunSteps) THEN "returned" ELSE S3_RunSteps[i + 1]

S3_Returns(step) ==
    /\ pc' = S3_StepAfter(step)
    /\ calls' = Append(calls, Call(step, FALSE, NoExc))
    /\ completed' = completed \cup {step}
    /\ UNCHANGED exc

S3_Raises(step, e) ==
    /\ pc' = "except_cleanup"
    /\ calls' = Append(calls, Call(step, FALSE, NoExc))
    /\ exc' = e
    /\ UNCHANGED completed

\* The checks of __init__: the format, and that tmp_dir is a directory.
S3_Validator_init ==
    /\ pc = "init"
    /\ IF format \notin {"audio", "video"}
       THEN /\ pc' = "crashed"
            /\ escaped' = Exc("Exception", <<"Cannot process file with format ", format, ".">>)
       ELSE IF ~fs.tmp_dir
       THEN /\ pc' = "crashed"
            /\ escaped' = Exc("Exception", <<"Directory ">> \o tmp_dir \o <<" does not exist.">>)
       ELSE /\ pc' = S3_RunSteps[1]
            /\ UNCHANGED escaped
    /\ UNCHANGED <<fields, exc, source, fs, dest, package, published, calls, completed,
                   toolLog, faults>>

S3_Step_download_bag ==
    /\ pc = "download_bag"
    /\ \/ /\ source
          /\ \E pkg \in S3_Packages(format, refid) : package' = pkg
          /\ fs' = [fs EXCEPT !.archive = TRUE]
          /\ S3_Returns("download_bag")
          /\ UNCHANGED faults
       \/ /\ faults' = faults \cup {<<"download_bag", "download">>}
          /\ S3_Raises("download_bag", DownloadFailed)
          /\ UNCHANGED <<fs, package>>
    /\ UNCHANGED <<fields, escaped, source, dest, published, toolLog>>

S3_Step_extract_bag ==
    /\ pc = "extract_bag"
    /\ CASE package.kind = "bag" ->
              /\ fs' = [fs EXCEPT !.bag = TRUE, !.data = @ \cup package.payload,
                                  !.archive = FALSE]
              /\ S3_Returns("extract_bag")
         [] package.kind = "wrongroot" ->
              /\ fs' = [fs EXCEPT !.stray = TRUE, !.archive = FALSE]
              /\ S3_Returns("extract_bag")
         [] package.kind = "truncated" ->
              /\ fs' = [fs EXCEPT !.bag = TRUE, !.data = @ \cup package.payload]
              /\ S3_Raises("extract_bag", ExtractError(TarTruncated))
         [] OTHER ->
              /\ UNCHANGED fs
              /\ S3_Raises("extract_bag", ExtractError(TarReadFailed))
    /\ UNCHANGED <<fields, escaped, source, dest, package, published, toolLog, faults>>

\* validate_bag(bag_path): list(bag_path.iterdir()), then bagit.
S3_Step_validate_bag ==
    /\ pc = "validate_bag"
    /\ IF ~ExtractedIsDir THEN S3_Raises("validate_bag", NoBagDirectory)
       ELSE IF package.kind # "bag" THEN S3_Raises("validate_bag", NotABag)
       ELSE IF ~package.bagValid THEN S3_Raises("validate_bag", BagInvalid)
       ELSE S3_Returns("validate_bag")
    /\ UNCHANGED <<fields, escaped, source, fs, dest, package, published, toolLog, faults>>

S3_Step_validate_assets ==
    /\ pc = "validate_assets"
    /\ LET e == S3_validate_assets(format, refid, fs.data)
       IN  IF e = NoExc THEN S3_Returns("validate_assets") ELSE S3_Raises("validate_assets", e)
    /\ UNCHANGED <<fields, escaped, source, fs, dest, package, published, toolLog, faults>>

\* validate_file_formats(bag_path): the tool's exit code decides; a second
\* run of the tool supplies the number quoted in the error.
S3_Step_validate_file_formats ==
    /\ pc = "validate_file_formats"
    /\ \E order \in Perms({ FilePath(n) : n \in fs.data }) :
       \E code \in [Range(order) -> ExitCodes] :
          LET e == S3_FormatLoop(order, code, 1)
          IN  IF e = NoExc
              THEN S3_Returns("validate_file_formats")
              ELSE S3_Raises("validate_file_formats", e)
    /\ UNCHANGED <<fields, escaped, source, fs, dest, package, published, toolLog, faults>>

\* move_to_destination(bag_path): one upload per file of data/, in glob
\* order, until one raises.
S3_Step_move_to_destination ==
    /\ pc = "move_to_destination"
    /\ \E order \in Perms(fs.data) :
       \E failAt \in 0..Len(order) :
          LET r == UploadLoop(order, failAt, 1)
          IN  /\ dest' = [dest EXCEPT !.files = @ \cup r.keys]
              /\ faults' = IF r.exc = UploadFailed
                           THEN faults \cup {<<"move_to_destination", "upload">>}
                           ELSE faults
              /\ IF r.exc = NoExc
                 THEN S3_Returns("move_to_destination")
                 ELSE S3_Raises("move_to_destination", r.exc)
    /\ UNCHANGED <<fields, escaped, source, fs, package, published, toolLog>>

\* cleanup_successful_job(bag_path) when the collaborator failure `fault`
\* occurs: the error raised, and the directory and source bucket it leaves.
cleanup_successful_job(fault) ==
    IF fault = "rmtree" THEN [exc |-> RmtreeFailed, fs |-> fs, source |-> source]
    ELSE LET removed == IF ExtractedIsDir THEN Rmtree(fs) ELSE fs
         IN  IF fault = "delete" THEN [exc |-> DeleteFailed, fs |-> removed, source |-> source]
             ELSE [exc |-> NoExc, fs |-> removed, source |-> FALSE]

\* cleanup_failed_job(bag_path) when the collaborator failure `fault`
\* occurs: the error raised, and the directory and the bucket it leaves.
\* delete_objects is called with every key list_objects_v2 returned, also
\* when there is none.
cleanup_failed_job(fault) ==
    IF fault = "rmtree" THEN [exc |-> RmtreeFailed, fs |-> fs, files |-> dest.files]
    ELSE LET removed == IF ExtractedIsDir THEN Rmtree(fs) ELSE fs
             to_delete == WithPrefix(dest.files, refid)
         IN  IF fault = "list" THEN [exc |-> ListFailed, fs |-> removed, files |-> dest.files]
             ELSE IF fault = "delete"
             THEN [exc |-> DeleteObjectsFailed, fs |-> removed, files |-> dest.files]
             ELSE [exc |-> NoExc, fs |-> removed, files |-> dest.files \ to_delete]

S3_Step_cleanup_successful_job ==
    /\ pc = "cleanup_successful_job"
    /\ \E fault \in {"none", "delete"} \cup (IF ExtractedIsDir THEN {"rmtree"} ELSE {}) :
          LET r == cleanup_successful_job(fault)
          IN  /\ fs' = r.fs
              /\ source' = r.source
              /\ faults' = IF fault = "none" THEN faults
                           ELSE faults \cup {<<"cleanup_successful_job", fault>>}
              /\ IF r.exc = NoExc THEN S3_Returns("cleanup_successful_job")
                 ELSE S3_Raises("cleanup_successful_job", r.exc)
    /\ UNCHANGED <<fields, escaped, dest, package, published, toolLog>>

S3_Step_deliver_success_notification ==
    /\ pc = "deliver_success_notification"
    /\ \/ /\ published' = Append(published, SuccessEvent(format, refid, source_filename))
          /\ S3_Returns("deliver_success_notification")
          /\ UNCHANGED faults
       \/ /\ faults' = faults \cup {<<"deliver_success_notification", "publish">>}
          /\ S3_Raises("deliver_success_notification", PublishFailed)
          /\ UNCHANGED published
    /\ UNCHANGED <<fields, escaped, source, fs, dest, package, toolLog>>

\* The except clause, first call: self.cleanup_failed_job(extracted).
S3_Except_cleanup_failed_job ==
    /\ pc = "except_cleanup"
    /\ \E fault \in {"none", "list", "delete"} \cup (IF ExtractedIsDir THEN {"rmtree"} ELSE {}) :
          LET r == cleanup_failed_job(fault)
          IN  /\ fs' = r.fs
              /\ dest' = [dest EXCEPT !.files = r.files]
              /\ faults' = IF fault = "none" THEN faults
                           ELSE faults \cup {<<"except_cleanup", fault>>}
              /\ escaped' = r.exc
              /\ pc' = IF r.exc = NoExc THEN "except_notify" ELSE "raised"
    /\ calls' = Append(calls, Call("cleanup_failed_job", TRUE, NoExc))
    /\ UNCHANGED <<fields, exc, source, package, published, completed, toolLog>>

\* The except clause, second call: self.deliver_failure_notification(e).
S3_Except_deliver_failure_notification ==
    /\ pc = "except_notify"
    /\ \/ /\ published' = Append(published, S3_FailureEvent(format, refid, source_filename, exc))
          /\ pc' = "returned"
          /\ UNCHANGED <<escaped, faults>>
       \/ /\ faults' = faults \cup {<<"except_notify", "publish">>}
          /\ escaped' = PublishFailed
          /\ pc' = "raised"
          /\ UNCHANGED published
    /\ calls' = Append(calls, Call("deliver_failure_notification", FALSE, exc))
    /\ UNCHANGED <<fields, exc, source, fs, dest, package, completed, toolLog>>

S3_Next ==
    \/ S3_Validator_init
    \/ S3_Step_download_bag
    \/ S3_Step_extract_bag
    \/ S3_Step_validate_bag
    \/ S3_Step_validate_assets
    \/ S3_Step_validate_file_formats
    \/ S3_Step_move_to_destination
    \/ S3_Step_cleanup_successful_job
    \/ S3_Step_deliver_success_notification
    \/ S3_Except_cleanup_failed_job
    \/ S3_Except_deliver_failure_notification

S3_Spec == S3_Init /\ [][S3_Next]_vars

(***************************************************************************)
(* Vocabulary of the properties.                                           *)
(***************************************************************************)
\* The text p occurs in the text s.
Contains(s, p) ==
    \E i \in 1..(Len(s) - Len(p) + 1) : Slice(s, i, i + Len(p) - 1) = p

\* The order of the steps as the specification gives it.
ClaimedOrder ==
    <<"validate_refid", "download_bag", "extract_bag", "validate_bag", "validate_assets",
      "validate_file_formats", "move_to_destination", "cleanup_binaries",
      "deliver_success_notification">>

\* The steps from which the specification lets a failure be reached.
FirstSeven == { ClaimedOrder[i] : i \in 1..7 }

\* A call made by the try block, as opposed to one made by the except clause.
IsTryCall(c) == c.step \in Range(ClaimedOrder) /\ ~c.job_failed

TryCalls == SelectSeq(calls, IsTryCall)

\* The calls made after those of the try block.
ExceptCalls == SubSeq(calls, Len(TryCalls) + 1, Len(calls))

\* The step that raised, once one has.
FailedStep == TryCalls[Len(TryCalls)].step

Failed == exc # NoExc /\ TryCalls # <<>>

CleanupCalls == { i \in DOMAIN calls : calls[i].step = "cleanup_binaries" }

Outcome(i) == published[i].MessageAttributes.outcome

FailureEvents == { i \in DOMAIN published : Outcome(i) = "FAILURE" }

SuccessEvents == { i \in DOMAIN published : Outcome(i) = "SUCCESS" }

\* Exactly 32 characters, each a letter or a digit.
WellFormedRefid == Len(refid) = 32 /\ \A i \in DOMAIN refid : IsAlnum(refid[i])

\* The package is a tar of a valid bag rooted at {refid}, and no collaborator
\* (role assumption, transfer, file system, topic) failed during the run.
SoundDelivery == package.kind = "bag" /\ package.bagValid /\ faults = {}

\* Every output the conformance tool gave began with pass!.
ToolPassedAll ==
    \A i \in DOMAIN toolLog : StartsWith(toolLog[i].result, <<"p", "a", "s", "s", "!">>)

\* The exception types each of the first seven steps raises.
RaisedBy(step) ==
    CASE step = "validate_refid" -> {"RefidError"}
      [] step = "download_bag" -> {"ClientError"}
      [] step = "extract_bag" -> {"ExtractError"}
      [] step = "validate_bag" -> {"BagError", "BagValidationError"}
      [] step = "validate_assets" -> {"AssetValidationError"}
      [] step = "validate_file_formats" -> {"FileFormatValidationError"}
      [] step = "move_to_destination" -> {"AlreadyExistsError", "Error"}
      [] OTHER -> {}

\* The descriptions of the errors a run can meet besides the one it handles.
ForeignDescriptions ==
    { e.msg : e \in {AssumeRoleFailed, DownloadFailed, TarReadFailed, TarTruncated, NotABag,
                     BagInvalid, CopyFailed, RmtreeFailed, DeleteFailed, PublishFailed,
                     RefidError(refid), AlreadyExistsError(refid)} }

(***************************************************************************)
(* C1.  Every invocation of run() ends in exactly one terminal             *)
(* notification: at no time have two events been published, and when the   *)
(* invocation has ended exactly one event, a SUCCESS or a FAILURE, has     *)
(* been published, never none, whichever step raised.  The code ends an    *)
(* invocation with no event when a call of the except clause raises, as    *)
(* cleanup_binaries does when the role cannot be assumed.                  *)
(***************************************************************************)
C1_ExactlyOneNotification ==
    /\ Len(published) <= 1
    /\ pc \in {"returned", "raised"} =>
          /\ Len(published) = 1
          /\ Cardinality(SuccessEvents) + Cardinality(FailureEvents) = 1

(***************************************************************************)
(* C2.  cleanup_binaries is executed exactly once per invocation of run(): *)
(* never twice, and once (with job_failed set exactly when a step raised)  *)
(* by the time run() returns.  The code runs it a second time when the     *)
(* success cleanup or the success notification raises.                     *)
(***************************************************************************)
C2_CleanupExactlyOnce ==
    /\ Cardinality(CleanupCalls) <= 1
    /\ pc = "returned" =>
          /\ Cardinality(CleanupCalls) = 1
          /\ \A i \in CleanupCalls : calls[i].job_failed = Failed

C4_FailurePath ==
    (Failed /\ FailedStep \in FirstSeven) =>
        /\ exc.type \in RaisedBy(FailedStep)
        /\ FailedStep \notin completed
        /\ \A i \in DOMAIN TryCalls : TryCalls[i].step = ClaimedOrder[i]
        /\ SubSeq(calls, 1, Len(TryCalls)) = TryCalls
        /\ Len(ExceptCalls) <= 2
        /\ Len(ExceptCalls) >= 1 =>
              ExceptCalls[1].step = "cleanup_binaries" /\ ExceptCalls[1].job_failed
        /\ Len(ExceptCalls) = 2 =>
              ExceptCalls[2].step = "deliver_failure_notification" /\ ExceptCalls[2].arg = exc
        /\ pc = "except_notify" => Len(ExceptCalls) = 1
        /\ pc \in {"returned", "raised"} =>
              /\ Len(ExceptCalls) = 2
              /\ pc = "returned" =>
                    /\ Len(published) = 1
                    /\ Outcome(1) = "FAILURE"
                    /\ StartsWith(published[1].MessageAttributes.message, exc.msg)
                    /\ \A d \in ForeignDescriptions :
                          Contains(published[1].MessageAttributes.message, d) =>
                              Contains(exc.msg, d) \/ Contains(exc.ctx_msg, d)

(***************************************************************************)
(* C5.  Whenever an invocation has published a FAILURE notification, it    *)
(* has not deleted the source object.  The code publishes a FAILURE after  *)
(* the success cleanup deleted the source object, when the success         *)
(* notification raises.                                                    *)
(***************************************************************************)
C5_FailureKeepsSource == FailureEvents # {} => source

(***************************************************************************)
(* C6.  Given an audio package with a well-formed refid, one master and    *)
(* one access file in a valid bag, a conformance tool that passes every    *)
(* file, a destination not yet holding this refid and collaborators that   *)
(* do not fail: when run() has returned, exactly one event, a SUCCESS, has *)
(* been published, the working directory is gone, the source object is     *)
(* deleted, and both files are at the destination.                         *)
(***************************************************************************)
C6_Scenario ==
    /\ format = "audio"
    /\ WellFormedRefid
    /\ SoundDelivery
    /\ package.payload = {refid \o <<"_">> \o A_MP3, refid \o <<"_">> \o MA_WAV}
    /\ ToolPassedAll
    /\ ~start.exists

C6_ValidAudioSucceeds ==
    (pc = "returned" /\ C6_Scenario) =>
        /\ Len(published) = 1
        /\ Outcome(1) = "SUCCESS"
        /\ ~fs.bag
        /\ ~source
        /\ dest.exists
        /\ dest.files = {refid \o <<"_">> \o A_MP3, refid \o <<"_">> \o MA_WAV}

\* run() has returned from such a delivery, the tool having checked both files.
C6_Witness == pc = "returned" /\ C6_Scenario /\ Len(toolLog) = 2

(***************************************************************************)
(* C7.  Given a video package with a well-formed refid whose payload lacks *)
(* {refid}_me.mov, in a valid bag, and collaborators that do not fail:     *)
(* when run() has returned, exactly one event, a FAILURE whose message     *)
(* contains {refid}_me.mov, has been published, the working directory is   *)
(* gone, the source object is still there and the destination is as it     *)
(* was found.                                                              *)
(***************************************************************************)
C7_Scenario ==
    /\ format = "video"
    /\ WellFormedRefid
    /\ SoundDelivery
    /\ (refid \o <<"_">> \o ME_MOV) \notin package.payload

C7_MissingMezzanineFails ==
    (pc = "returned" /\ C7_Scenario) =>
        /\ Len(published) = 1
        /\ Outcome(1) = "FAILURE"
        /\ Contains(published[1].MessageAttributes.message, refid \o <<"_">> \o ME_MOV)
        /\ ~fs.bag
        /\ source
        /\ dest = start

\* run() has returned from such a delivery, whose payload held the other two files.
C7_Witness ==
    /\ pc = "returned"
    /\ C7_Scenario
    /\ package.payload = {refid \o <<"_">> \o MA_MKV, refid \o <<"_">> \o A_MP4}

(***************************************************************************)
(* C8.  After run() has returned, Path(tmp_dir, refid) is not a directory, *)
(* whatever the outcome and whichever step failed.                         *)
(***************************************************************************)
C8_WorkingDirectoryGone == pc = "returned" => ~ExtractedIsDir

\* run() has returned after extraction created the directory and a later step raised.
C8_Witness ==
    /\ pc = "returned"
    /\ "extract_bag" \in completed
    /\ package.kind = "bag"
    /\ Failed

C10_ExpectedFilesHavePolicy ==
    pc = "validate_file_formats" =>
        \A f \in Range(get_expected_structure(
                           format, refid, Cardinality(get_master_files(format, fs.data)))) :
            get_policy_path(f).exc = NoExc

(***************************************************************************)
(* Payloads the specification calls structurally conformant: audio with    *)
(* one master, audio with N > 1 numbered masters, video.                   *)
(***************************************************************************)
ConformantPayloads(fmt, r) ==
    IF fmt = "video"
    THEN { { r \o <<"_">> \o MA_MKV, r \o <<"_">> \o ME_MOV, r \o <<"_">> \o A_MP4 } }
    ELSE { { r \o <<"_">> \o A_MP3, r \o <<"_">> \o MA_WAV } }
         \cup { { r \o <<"_">> \o A_MP3 } \cup { NumberedMaster(r, i) : i \in 1..n } :
                n \in 2..MaxListed }

(***************************************************************************)
(* C11.  validate_assets raises AssetValidationError for every directory   *)
(* that is a structurally conformant payload with one single file removed. *)
(* The code accepts an audio payload of three or more numbered masters     *)
(* from which the last master was removed: the masters that remain are     *)
(* counted, and their names are the structure expected for that count.     *)
(***************************************************************************)
C11_RemovedFileIsDetected ==
    applied.method = "validate_assets" =>
        ((\E p \in ConformantPayloads(format, refid) :
             \E f \in p : Range(applied.listing) = p \ {f})
         => applied.raised.type = "AssetValidationError")

\* The names of the set S in ascending code-point order, smallest first.
RECURSIVE Ascending(_)
Ascending(S) ==
    IF S = {} THEN <<>>
    ELSE LET least == CHOOSE x \in S : \A y \in S \ {x} : StrLess(x, y)
         IN  <<least>> \o Ascending(S \ {least})

\* The expected file names for the directory that `listing` lists.
ExpectedFor(listing) ==
    Range(get_expected_structure(
              format, refid, Cardinality(get_master_files(format, Range(listing)))))

(***************************************************************************)
(* C12.  validate_assets returns if and only if the set of names listed    *)
(* equals the set of expected names, and raises AssetValidationError       *)
(* otherwise; the outcome is that of any other listing of the same set of  *)
(* names, in another order or with a name repeated; and the message names  *)
(* the expected and the actual files each in ascending order, so it is the *)
(* same for every order of the listing.                                    *)
(***************************************************************************)
C12_CompareBySet ==
    applied.method = "validate_assets" =>
        LET listing == applied.listing
            names == Range(listing)
            other == validate_assets(format, refid, Ascending(names))
        IN  /\ applied.raised = NoExc <=> names = ExpectedFor(listing)
            /\ applied.raised # NoExc => applied.raised.type = "AssetValidationError"
            /\ applied.raised = NoExc <=> other = NoExc
            /\ (applied.raised # NoExc /\ Len(listing) = Cardinality(names)) =>
                  /\ applied.raised = other
                  /\ applied.raised.msg =
                        <<"The files delivered do not match what is expected.<br><br>Expected files:<br>">>
                        \o Join(<<"<br>">>, Ascending(ExpectedFor(listing)))
                        \o <<"<br><br>Actual files:<br>">>
                        \o Join(<<"<br>">>, Ascending(names))

\* validate_assets has raised for a listing of three or more names that is
\* not in ascending order.
C12_Witness ==
    /\ applied.method = "validate_assets"
    /\ applied.raised # NoExc
    /\ Len(applied.listing) >= 3
    /\ Len(applied.listing) = Cardinality(Range(applied.listing))
    /\ applied.listing # Ascending(Range(applied.listing))

\* The two decimal digits of a number below 100, the tens first.
TwoDigits(i) == <<Digits[(i \div 10) + 1], Digits[(i % 10) + 1]>>

(***************************************************************************)
(* C13.  For the format audio, get_expected_structure returns              *)
(* {refid}_a.mp3 and {refid}_ma.wav for a master-file count of 0 or 1,     *)
(* and for a count N > 1 it returns {refid}_a.mp3 together with            *)
(* {refid}_ma_01.wav .. {refid}_ma_NN.wav, numbered from 1 with two        *)
(* digits: exactly N masters and, whatever N, exactly one access file.     *)
(* Counts are those below 100, which two digits can number.                *)
(***************************************************************************)
C13_AudioStructure ==
    (applied.method = "get_expected_structure" /\ format = "audio") =>
        LET n == applied.n
            names == Range(applied.returned)
            access == refid \o <<"_", "a", ".", "m", "p", "3">>
        IN  /\ Len(applied.returned) = Cardinality(names)
            /\ IF n <= 1
               THEN names = {access, refid \o <<"_", "m", "a", ".", "w", "a", "v">>}
               ELSE /\ names =
                          {access}
                          \cup { refid \o <<"_", "m", "a", "_">> \o TwoDigits(i)
                                    \o <<".", "w", "a", "v">> : i \in 1..n }
                    /\ Cardinality(names \ {access}) = n
            /\ Cardinality({ f \in names : EndsWith(f, <<".", "m", "p", "3">>) }) = 1

\* get_expected_structure has been called for ten or more audio masters.
C13_Witness ==
    /\ applied.method = "get_expected_structure"
    /\ format = "audio"
    /\ applied.n >= 10
    /\ Len(applied.returned) = applied.n + 1

(***************************************************************************)
(* C14.  For the format video, get_expected_structure returns              *)
(* {refid}_ma.mkv, {refid}_me.mov and {refid}_a.mp4 for every master-file  *)
(* count n >= 0.                                                           *)
(***************************************************************************)
C14_VideoStructureFixed ==
    (applied.method = "get_expected_structure" /\ format = "video") =>
        /\ Len(applied.returned) = 3
        /\ Range(applied.returned) =
              { refid \o <<"_", "m", "a", ".", "m", "k", "v">>,
                refid \o <<"_", "m", "e", ".", "m", "o", "v">>,
                refid \o <<"_", "a", ".", "m", "p", "4">> }

\* get_expected_structure has been called for a video with several masters.
C14_Witness ==
    /\ applied.method = "get_expected_structure"
    /\ format = "video"
    /\ applied.n >= 2
    /\ Len(applied.returned) = 3

(***************************************************************************)
(* C15.  validate_refid returns True for every string of exactly 32        *)
(* characters each in [A-Za-z0-9] and raises RefidError for every other    *)
(* string, and changes nothing.  The code returns True for 32 such         *)
(* characters followed by a line break, which `$` lets through.            *)
(***************************************************************************)
C15_ExactlyThirtyTwoAlnum ==
    applied.method = "validate_refid" =>
        /\ applied.raised = NoExc <=>
              (Len(applied.s) = 32 /\ \A i \in DOMAIN applied.s : IsAlnum(applied.s[i]))
        /\ applied.raised # NoExc => applied.raised.type = "RefidError"
        /\ source /\ fs = EmptyTmp /\ dest = NoDest /\ published = <<>>

\* The bindings the specification lists: suffix, policy document.
ClaimedBindings ==
    { << <<"a", ".", "m", "p", "3">>, "RAC_Audio_A_MP3.xml" >>,
      << <<"m", "a", ".", "w", "a", "v">>, "RAC_Audio_MA_WAV.xml" >>,
      << <<"a", ".", "m", "p", "4">>, "RAC_Video_A_MP4.xml" >>,
      << <<"m", "a", ".", "m", "k", "v">>, "RAC_Video_MA_FFV1MKV.xml" >>,
      << <<"m", "e", ".", "m", "o", "v">>, "RAC_Video_MEZZ_ProRes.xml" >> }

\* The part of the path p after its last '_'; all of p when it has none.
AfterLastUnderscore(p) ==
    LET at == { i \in DOMAIN p : p[i] = "_" /\ \A j \in DOMAIN p : j > i => p[j] # "_" }
    IN  IF at = {} THEN p
        ELSE LET i == CHOOSE i \in at : TRUE
             IN  [k \in 1..(Len(p) - i) |-> p[i + k]]

(***************************************************************************)
(* C16.  get_policy_path returns the policy document bound to the part of  *)
(* the path after its last '_' (a.mp3, ma.wav, a.mp4, ma.mkv, me.mov),     *)
(* whatever the directory part of the path, also when a directory name     *)
(* contains '_', and raises FileFormatValidationError exactly when that    *)
(* part has no binding.                                                    *)
(***************************************************************************)
C16_PolicyBySuffix ==
    applied.method = "get_policy_path" =>
        LET suffix == AfterLastUnderscore(applied.filepath)
        IN  /\ \A b \in ClaimedBindings :
                  suffix = b[1] =>
                      /\ applied.returned.exc = NoExc
                      /\ applied.returned.path = <<"mediaconch_policies", "/", b[2]>>
            /\ applied.returned.exc # NoExc <=> suffix \notin { b[1] : b \in ClaimedBindings }
            /\ applied.returned.exc # NoExc =>
                  applied.returned.exc.type = "FileFormatValidationError"

\* get_policy_path has returned a policy for a file in a directory whose
\* name contains '_'.
C16_Witness ==
    /\ applied.method = "get_policy_path"
    /\ applied.filepath = PathJoin(<<"/", "f", "o", "o", "/", "b", "u", "z", "z", "_", "b", "a", "z">>,
                                   <<"b", "a", "r", "_", "a", ".", "m", "p", "3">>)
    /\ applied.returned.path = <<"mediaconch_policies", "/", "RAC_Audio_A_MP3.xml">>

\* The try block's call of `step` is the last call run() has made.
JustCalled(step) ==
    /\ calls # <<>>
    /\ calls[Len(calls)].step = step
    /\ ~calls[Len(calls)].job_failed

\* The tool's invocations whose output began with fail!.
FailedChecks ==
    { i \in DOMAIN toolLog : StartsWith(toolLog[i].result, <<"f", "a", "i", "l", "!">>) }

(***************************************************************************)
(* C17.  validate_file_formats returns without error when the conformance  *)
(* tool was run on every file under data/ and printed a pass!-prefixed     *)
(* result each time; it raises FileFormatValidationError when the tool     *)
(* printed a fail!-prefixed result for a file, and the error's text ends   *)
(* with what the tool printed for that file, unchanged.                    *)
(***************************************************************************)
C17_FormatOutcome ==
    JustCalled("validate_file_formats") =>
        /\ ({ toolLog[i].file : i \in DOMAIN toolLog } = { FilePath(n) : n \in fs.data }
               /\ ToolPassedAll)
              => "validate_file_formats" \in completed
        /\ \A i \in FailedChecks :
              /\ "validate_file_formats" \notin completed
              /\ pc = "except_cleanup"
              /\ exc.type = "FileFormatValidationError"
              /\ EndsWith(exc.msg, toolLog[i].result)
              /\ StartsWith(exc.msg, toolLog[i].file)
              /\ i = Len(toolLog)

\* The tool passed the first file and failed the second.
C17_Witness ==
    /\ JustCalled("validate_file_formats")
    /\ Len(toolLog) = 2
    /\ FailedChecks = {2}
    /\ exc.type = "FileFormatValidationError"

(***************************************************************************)
(* C18.  move_to_destination raises AlreadyExistsError when                *)
(* {destination_dir}/{refid} already exists and leaves that destination as *)
(* it was; when the path does not exist, and the copy itself does not      *)
(* break off, it returns and the destination then holds every file of the  *)
(* payload data directory and no other file.                               *)
(***************************************************************************)
C18_Relocation ==
    JustCalled("move_to_destination") =>
        /\ start.exists =>
              /\ "move_to_destination" \notin completed
              /\ exc.type = "AlreadyExistsError"
              /\ dest = start
        /\ (~start.exists /\ <<"move_to_destination", "copy">> \notin faults) =>
              /\ "move_to_destination" \in completed
              /\ dest.exists
              /\ dest.files = fs.data
              /\ fs.data = package.payload

\* move_to_destination has been refused by a destination that holds files.
C18_Witness ==
    /\ JustCalled("move_to_destination")
    /\ start.exists
    /\ start.files # {}
    /\ exc.type = "AlreadyExistsError"
    /\ dest = start

(***************************************************************************)
(* C19.  When a run fails after move_to_destination has created            *)
(* {destination_dir}/{refid}, the failure branch removes every destination *)
(* path under {refid}: once the failure branch has run, a destination that *)
(* was not there when the run began is not there.  The code's failure      *)
(* branch never touches the destination.                                   *)
(***************************************************************************)
C19_FailureClearsDestination ==
    (pc = "returned" /\ Failed /\ ~start.exists) => ~dest.exists

(***************************************************************************)
(* C20. In the object-store variant, once cleanup_failed_job has returned  *)
(* in a run that failed at any step, the working directory is gone, no     *)
(* object of the destination bucket has a key that starts with the refid,  *)
(* and the source object is still in its bucket.                           *)
(***************************************************************************)
C20_FailedJobCleanedUp ==
    pc = "except_notify" =>
        /\ ~ExtractedIsDir
        /\ WithPrefix(dest.files, refid) = {}
        /\ source

(***************************************************************************)
(* C21. Of two invocations of run() for the same refid, each with its own  *)
(* temporary directory and a package that passes every validation,         *)
(* interleaved in any way or one after the other: at most one has its      *)
(* move_to_destination return; once one has, a move_to_destination the     *)
(* other has called raised AlreadyExistsError, that invocation ends with   *)
(* one FAILURE event carrying that error (it returns whenever none of its  *)
(* collaborators failed), and every file the successful invocation placed  *)
(* at {destination_dir}/{refid} is still there.                            *)
(***************************************************************************)
Invocations == <<Invocation, applied>>

Moved(v) == "move_to_destination" \in v.completed

MoveCalled(v) == \E i \in DOMAIN v.calls : v.calls[i].step = "move_to_destination"

Terminated(v) == v.pc \in {"returned", "raised", "crashed"}

C21_CollisionDetected ==
    \A x, y \in DOMAIN Invocations :
        x # y =>
            LET a == Invocations[x]
                b == Invocations[y]
            IN  /\ ~(Moved(a) /\ Moved(b))
                /\ Moved(a) =>
                      /\ dest.exists
                      /\ a.package.payload \subseteq dest.files
                /\ (Moved(a) /\ MoveCalled(b)) =>
                      /\ b.exc = AlreadyExistsError(refid)
                      /\ "cleanup_binaries" \notin b.completed
                      /\ (Terminated(b) /\ b.faults = {}) => b.pc = "returned"
                      /\ b.pc = "returned" =>
                            /\ Len(b.published) = 1
                            /\ b.published[1] =
                                  FailureEvent(format, refid, source_filename,
                                               AlreadyExistsError(refid))

\* Both invocations have returned, one after relocating the package, the
\* other after a collision; the loser downloaded the source object before the
\* winner deleted it, so the two overlapped.
C21_Witness ==
    /\ pc = "returned"
    /\ applied.pc = "returned"
    /\ Moved(Invocation)
    /\ applied.exc = AlreadyExistsError(refid)
    /\ ~source
    /\ Len(published) = 1
    /\ Len(applied.published) = 1

(***************************************************************************)
(* C22. When the publish inside deliver_success_notification or            *)
(* deliver_failure_notification raises, run() calls nothing further (no    *)
(* cleanup, no second notification), publishes nothing, and no exception   *)
(* leaves run().  The code handles a failed success notification like any  *)
(* failed step, with a second cleanup and a failure notification, and lets *)
(* a failed failure notification propagate.                                *)
(***************************************************************************)
PublishRaisedIn(position) == <<position, "publish">> \in faults

C22_PublishFailureContained ==
    /\ PublishRaisedIn("deliver_success_notification") =>
          /\ calls[Len(calls)].step = "deliver_success_notification"
          /\ published = <<>>
          /\ escaped = NoExc
    /\ PublishRaisedIn("except_notify") =>
          /\ calls[Len(calls)].step = "deliver_failure_notification"
          /\ escaped = NoExc

(***************************************************************************)
(* C23. cleanup_binaries, with job_failed False or True and collaborators  *)
(* that do not fail, raises nothing; called when Path(tmp_dir, refid) is   *)
(* not a directory it leaves the temporary directory as it found it; and   *)
(* called a second time in a row with the same job_failed it leaves the    *)
(* temporary directory, the source bucket and the destination as the       *)
(* first call left them.                                                   *)
(***************************************************************************)
SamePathTwice ==
    /\ Len(calls) >= 2
    /\ calls[Len(calls)].job_failed = calls[Len(calls) - 1].job_failed

C23_CleanupIdempotent ==
    (applied.method = "cleanup_binaries" /\ faults = {}) =>
        /\ applied.cleanup_raised = NoExc
        /\ ~applied.found.is_dir =>
              /\ fs = applied.found.fs
              /\ dest = applied.found.dest
        /\ SamePathTwice =>
              /\ fs = applied.found.fs
              /\ source = applied.found.source
              /\ dest = applied.found.dest

\* The success path has run twice on a working directory that held a
\* package: the second call found neither the directory nor the source object.
C23_Witness ==
    /\ applied.method = "cleanup_binaries"
    /\ faults = {}
    /\ SamePathTwice
    /\ ~applied.job_failed
    /\ ~applied.found.is_dir
    /\ ~applied.found.source
    /\ refid # <<>>
    /\ start.exists

(***************************************************************************)
(* C24. Each notification call that returns has published one event.  A    *)
(* success event carries exactly the attributes format, refid, service and *)
(* outcome, with service 'digitized_av_validation' and outcome 'SUCCESS';  *)
(* a failure event carries those with outcome 'FAILURE' and a message      *)
(* attribute that contains str(e) of the exception handed over; format and *)
(* refid are the Validator's.                                              *)
(***************************************************************************)
CommonAttributes == {"format", "refid", "service", "outcome"}

NotificationsReturned ==
    (IF "deliver_success_notification" \in completed THEN 1 ELSE 0)
    + (IF pc = "returned" /\ exc # NoExc THEN 1 ELSE 0)

C24_EventShape ==
    /\ Len(published) = NotificationsReturned
    /\ "deliver_success_notification" \in completed => Outcome(1) = "SUCCESS"
    /\ (pc = "returned" /\ exc # NoExc) => Outcome(Len(published)) = "FAILURE"
    /\ \A i \in DOMAIN published :
          LET attributes == published[i].MessageAttributes
          IN  /\ attributes.format = format
              /\ attributes.refid = refid
              /\ attributes.service = "digitized_av_validation"
              /\ attributes.outcome \in {"SUCCESS", "FAILURE"}
              /\ attributes.outcome = "SUCCESS" => DOMAIN attributes = CommonAttributes
              /\ attributes.outcome = "FAILURE" =>
                    /\ DOMAIN attributes = CommonAttributes \cup {"message"}
                    /\ Contains(attributes.message, exc.msg)

\* A failure event has been published for a package that lacks a file.
C24_Witness ==
    /\ pc = "returned"
    /\ exc.type = "AssetValidationError"
    /\ Len(published) = 1
    /\ Outcome(1) = "FAILURE"
    /\ Contains(published[1].MessageAttributes.message, exc.msg)

(***************************************************************************)
(* C25. For an exception e that was never raised, the message attribute    *)
(* deliver_failure_notification(e) publishes is str(e), then the separator *)
(* '\n\n.\n\n', then 'Exception: ' with str(e) and a line break.  The code *)
(* puts '<br><br>' where the separator is claimed.                         *)
(***************************************************************************)
C25_TestedMessage ==
    (applied.method = "deliver_failure_notification" /\ ~applied.exception.tb) =>
        /\ Len(published) = 1
        /\ published[1].MessageAttributes.message =
              applied.exception.msg \o <<"\n\n.\n\n">>
              \o <<applied.exception.type, ": ">> \o applied.exception.msg \o <<"\n">>

(***************************************************************************)
(* C26. A Validator given a format other than 'audio' or 'video' raises    *)
(* from its constructor: run() is never entered, so no step and no cleanup *)
(* is called, nothing is downloaded, extracted or relocated, the source    *)
(* object stays, and no event is published.                                *)
(***************************************************************************)
C26_BadFormatIsFatal ==
    format \notin {"audio", "video"} =>
        /\ pc \in {"init", "crashed"}
        /\ pc = "crashed" => escaped.type = "Exception"
        /\ calls = <<>>
        /\ completed = {}
        /\ package = NoPackage
        /\ ~fs.archive /\ fs.data = {} /\ ~fs.stray
        /\ dest = start
        /\ source
        /\ published = <<>>

\* The constructor has raised for the format 'text'.
C26_Witness ==
    /\ format = "text"
    /\ pc = "crashed"
    /\ escaped = Exc("Exception", <<"Cannot process file with format ", "text", ".">>)

(***************************************************************************)
(* C27. validate_file_formats runs the conformance tool at most once on a  *)
(* file, only on direct children of data/, each time with the policy       *)
(* resolved from that file's name.  It returns only when every child has   *)
(* been checked.  It fails fast: when it raises, either the last file      *)
(* checked is the only one the tool failed and the error is the one for    *)
(* that file, or no checked file failed and the error is the one for a     *)
(* child whose policy could not be resolved, which the tool was never run  *)
(* on.                                                                     *)
(***************************************************************************)
Children == { FilePath(n) : n \in fs.data }

Checked == { toolLog[i].file : i \in DOMAIN toolLog }

C27_OncePerFileFailFast ==
    JustCalled("validate_file_formats") =>
        /\ Checked \subseteq Children
        /\ \A i, j \in DOMAIN toolLog : toolLog[i].file = toolLog[j].file => i = j
        /\ \A i \in DOMAIN toolLog :
              /\ get_policy_path(toolLog[i].file).exc = NoExc
              /\ toolLog[i].policy = get_policy_path(toolLog[i].file).path
        /\ "validate_file_formats" \in completed => Checked = Children
        /\ "validate_file_formats" \notin completed =>
              /\ pc = "except_cleanup"
              /\ \/ /\ FailedChecks = {Len(toolLog)}
                    /\ exc = NotValidError(toolLog[Len(toolLog)].file,
                                           toolLog[Len(toolLog)].result)
                 \/ /\ FailedChecks = {}
                    /\ \E f \in Children \ Checked :
                          /\ get_policy_path(f).exc # NoExc
                          /\ exc = get_policy_path(f).exc

\* The tool failed the first of three files and the other two were never
\* checked.
C27_Witness ==
    /\ JustCalled("validate_file_formats")
    /\ Cardinality(Children) = 3
    /\ Len(toolLog) = 1
    /\ FailedChecks = {1}
    /\ \A f \in Children : get_policy_path(f).exc = NoExc

(***************************************************************************)
(* C28. In no state of an invocation is the package lost: whenever the     *)
(* source object is gone, {destination_dir}/{refid} exists and holds every *)
(* file of the package's payload, whichever step failed before or after.   *)
(***************************************************************************)
C28_PackageNeverLost ==
    ~source =>
        /\ dest.exists
        /\ package.payload \subseteq dest.files
        /\ "move_to_destination" \in completed

\* The source object was deleted after relocation and the invocation then
\* failed (the success notification raised) and returned.
C28_Witness ==
    /\ ~source
    /\ pc = "returned"
    /\ Failed
    /\ package.payload # {}
    /\ dest.files = package.payload

(***************************************************************************)
(* C29. Given an audio package with a well-formed refid whose payload is   *)
(* {refid}_a.mp3 and the numbered masters {refid}_ma_01.wav and            *)
(* {refid}_ma_02.wav, in a valid bag, collaborators that do not fail, no   *)
(* destination beforehand and a tool that passes every file it is run on:  *)
(* run() ends with one SUCCESS event, the payload at the destination and   *)
(* the source object deleted.  The code finds no policy for a numbered     *)
(* master and ends in FAILURE.                                             *)
(***************************************************************************)
C29_Scenario ==
    /\ format = "audio"
    /\ WellFormedRefid
    /\ SoundDelivery
    /\ package.payload = {refid \o <<"_">> \o A_MP3} \cup { NumberedMaster(refid, i) : i \in 1..2 }
    /\ ToolPassedAll
    /\ ~start.exists

C29_NumberedMastersSucceed ==
    (pc = "returned" /\ C29_Scenario) =>
        /\ Len(published) = 1
        /\ Outcome(1) = "SUCCESS"
        /\ dest.exists
        /\ dest.files = package.payload
        /\ ~source

(***************************************************************************)
(* C30. In the object-store variant, the objects that were in the          *)
(* destination bucket under the refid prefix when the invocation started   *)
(* are still there after the invocation has failed and cleaned up, also    *)
(* when it failed before relocation began.  The code deletes every key     *)
(* the listing for that prefix returns, whoever wrote it.                  *)
(***************************************************************************)
C30_FailureKeepsEarlierObjects ==
    (exc # NoExc /\ pc \in {"except_notify", "returned", "raised"}) =>
        WithPrefix(start.files, refid) \subseteq dest.files

(***************************************************************************)
(* C31. For a refid that validate_refid rejects, no step of run() changes  *)
(* the temporary directory, the source bucket or the destination.  The     *)
(* code's failure cleanup removes Path(tmp_dir, refid) when it is a        *)
(* directory: tmp_dir itself for the empty refid, and a directory of that  *)
(* name left there earlier for any other.                                  *)
(***************************************************************************)
C31_RejectedRefidTouchesNothing ==
    [][(~validate_refid(refid) /\ pc # "init") =>
          (fs' = fs /\ source' = source /\ dest' = dest)]_vars

(***************************************************************************)
(* C32. Once run() has returned, whatever the outcome, the downloaded      *)
(* archive Path(tmp_dir, source_filename) does not exist.  The code        *)
(* removes it only at the end of a successful extraction; it stays when    *)
(* tarfile cannot open the archive or breaks off while extracting it.      *)
(***************************************************************************)
C32_ArchiveRemoved ==
    pc = "returned" => ~fs.archive

(***************************************************************************)
(* C33. validate_file_formats returns without error only when the tool     *)
(* was run on every file directly under data/ and its output began with    *)
(* pass! each time; a package for which some output began with neither     *)
(* pass! nor fail! is not relocated.  The code looks for the fail! prefix  *)
(* only, so a file for which the tool printed nothing counts as            *)
(* conformant.                                                             *)
(***************************************************************************)
C33_OnlyPassIsConformant ==
    /\ (JustCalled("validate_file_formats") /\ "validate_file_formats" \in completed) =>
          /\ Checked = Children
          /\ ToolPassedAll
    /\ ~ToolPassedAll => dest = start

(***************************************************************************)
(* C34. Two runs on the same payload with the same tool output for each    *)
(* file, which differ only in the order of the listing of data/, publish   *)
(* the same outcome and the same failure message, also when more than one  *)
(* file fails or has no policy.  The code reports the first failing file   *)
(* in listing order, so the message follows the order.                     *)
(***************************************************************************)
C34_OrderIndependent ==
    applied.method = "validate_file_formats" =>
        applied.events[1] = applied.events[2]

=============================================================================
